---- MODULE Spec2Model ----
(***************************************************************************)
(* fasthook: the event relay pipeline.                                     *)
(*   - Forwarder (fasthook/logger.py): bounded asyncio queue, one drain    *)
(*     loop, retry with exponential backoff under a counting semaphore.    *)
(*   - EventLogger and the server hooks (fasthook/logger.py, server.py):   *)
(*     the lazy start on the first log() and the stop() calls at shutdown. *)
(*   - EventReplayer (fasthook/replay.py): replay(), the three timing      *)
(*     modes of _replay_events, the rate limiter and the replay sender.    *)
(* asyncio is single-threaded and cooperative: every action below is the   *)
(* code that runs between two suspension points of one coroutine.          *)
(***************************************************************************)
EXTENDS Integers, Sequences, FiniteSets, TLC

\* ------------------------------------------------------------- bounds
MaxEvents == 3          \* events created (given to forward_event or to _process_forward)
MaxDirect == 1          \* direct callers of _process_forward besides the drain loop
MaxRetries == 2         \* forward_retries ranges over 0..MaxRetries
MaxConcurrency == 2     \* forward_concurrency ranges over 0..MaxConcurrency
MaxReplayEvents == 2    \* events loaded by one replay run
MaxLines == 3           \* lines of the events file
MaxStarts == 2          \* direct start() calls on the server's Forwarder (log adds a lazy one)
MaxDelay == 1           \* fixed_delay is 0 or MaxDelay ticks
MaxInterval == 2        \* 1 / max_rps is 1 or MaxInterval ticks
MaxRate == 2            \* rate is MaxRate in original-timing runs (it is not read in the others)
MaxGap == 1             \* consecutive timestamps differ by -MaxGap, 0 or MaxGap ticks times rate
MaxLatency == 1         \* a client.request call returns at once or after MaxLatency ticks
TicksPerSecond == 2     \* the clock's unit
MaxStops == 2           \* stop() calls on the server's Forwarder (graceful_shutdown, shutdown hook)
\* Forwarder.MAX_QUEUE_SIZE is 1000 in logger.py:133; the model scales the
\* capacity down so that TLC fills the queue.
MAX_QUEUE_SIZE == 2

\* ------------------------------------------------------------- constants
max_retries == 3        \* replay.py:233

\* ------------------------------------------------------------- data
W == 0                                  \* the drain loop (_worker_task)
DirectCallers == 1..MaxDirect
Callers == {W} \cup DirectCallers
Events == 1..MaxEvents                  \* event records, numbered as they are created
NoEvent == 0

\* What one client.request call can do: return a response or raise.
Statuses == {499, 500}
Response(s) == [kind |-> "response", status |-> s]
Exception == [kind |-> "exception", status |-> 0]
Pending == [kind |-> "pending", status |-> 0]      \* call made, not yet returned
Abandoned == [kind |-> "abandoned", status |-> 0]  \* call cancelled in flight
Outcomes == {Response(s) : s \in Statuses} \cup {Exception}

Range(s) == {s[i] : i \in 1..Len(s)}
RemoveAt(s, i) == SubSeq(s, 1, i - 1) \o SubSeq(s, i + 1, Len(s))
Pow2(n) == 2 ^ n

Latencies == {0, MaxLatency}                   \* how long one client.request call takes
NoTime == -1                                   \* None in a time field
T0 == MaxGap * MaxRate * MaxReplayEvents       \* timestamp of the first event

VARIABLES
    program,              \* which program this process runs: "forward" (a bare
                          \* Forwarder), "server" (EventLogger and its Forwarder), "replay",
                          \* "request" (one outbound request is built from one event),
                          \* "save" (an events file is written and read back),
                          \* "listen" (catch_all with exit_after), "mock" (MockServer)
    \* Forwarder fields
    forward_retries,
    forward_concurrency,
    queue,                \* _forward_queue: the items in it
    putters,              \* _forward_queue._putters: forward_event calls blocked on a full queue
    woken,                \* putters whose future was resolved and that have not run yet
    semValue,             \* _semaphore._value
    workerTask,           \* _worker_task: "none", "running", "cancelling", "ended"
    httpClient,           \* _http_client: "none", "open", "closed"
    proc,                 \* each _process_forward caller: pc, event, attempt
    stopPc,               \* the stop() call: "idle", "awaiting", "done"
    nextEvent,            \* next event the listener hands to forward_event
    started,              \* EventLogger._started
    \* observations of the forwarder
    startCalls,           \* start() calls made
    stopCalls,            \* stop() calls made
    loops,                \* drain-loop tasks created by start()
    closes,               \* aclose() calls made on the client
    \* observations of the forwarder
    log,                  \* per event: the client.request calls made, with their outcomes
    slept,                \* per event: the backoff sleeps taken
    accepted,             \* events in the order the queue took them
    dequeued,             \* events in the order the drain loop got them
    firstStart,           \* events in the order of their first delivery attempt
    dropped,              \* events forward_event dropped on timeout
    failedLog,            \* events with "Failed to forward after N attempts" logged
    returned,             \* events whose _process_forward returned normally
    \* EventReplayer
    rN,                   \* number of loaded events
    rTarget,              \* target_url is set
    rBad,                 \* index of the first record without method, path and timestamp; 0: none
    fixed_delay,          \* in ticks
    replay_once,
    rate,
    rTs,                  \* per event: its timestamp, in ticks
    rMaxRpsArg,           \* the max_rps argument, in requests per MaxInterval ticks
    max_rps,              \* self.max_rps
    rMinInterval,         \* 1.0 / max_rps, in ticks (0 where max_rps is not positive)
    rSource,              \* events_file: "ok", "missing" (open raises FileNotFoundError),
                          \* "unreadable" (open raises another error)
    rFile,                \* the lines of events_file
    rIdx,                 \* 1-based index of the event being replayed
    rPc,                  \* where the run is: "cli" (the replay command), "rejected",
                          \* in replay(): "init", "load", "next", "limit", "limitSleep", "delay",
                          \* "send", "request", "sleep", "sent", "done", "raised"
    rAttempt,
    rNow,                 \* loop.time(), in ticks
    rLastRequestTime,     \* _last_request_time (NoTime: None)
    rStartTime,           \* start_time of _replay_events (NoTime: None)
    rClient,              \* _http_client: "none", "open", "closed"
    rCloses,              \* aclose() calls made on the client
    rSlow,                \* a client.request call of this run took MaxLatency ticks
                          \* (one call per run does; the others return at once)
    rSends,               \* the _replay_event calls that got past the progress line: event, time
    rAdmits,              \* the times at which _apply_rate_limit admitted its caller
    rDelays,              \* the sleeps between events: before which event, how long, which branch
    rLog,                 \* per event: the client.request calls made, with their outcomes
    rSlept,
    rWarned,              \* per event: number of "retrying..." warnings
    rFailed,              \* events with "Failed to send event after 3 attempts" logged
    rReturned,            \* events whose _send_event returned normally
    rLine,                \* line_num of _load_events: lines read so far
    rEvents,              \* events of _load_events: the line numbers of the records appended
    rSkipped,             \* line numbers with "Skipping invalid JSON" logged
    \* One outbound request
    hSender,              \* who builds it: "forwarder" (_forward_request) or "replay" (_send_event)
    hEvent,               \* the event: its headers, json and raw fields
    hRequest,             \* the arguments of client.request (NoRequest: not called yet)
    hIncoming,            \* the request catch_all is handling (NoIncoming: the event is given)
    \* One events file, written by Logger and read by EventReplayer: file (its
    \* characters), saved (the events _save_event was called with, in order),
    \* loaded (the list _load_events returned), pc ("saving" | "loaded")
    events_file,
    \* app.state of the listener and its catch_all handlers: exit_after ({} for
    \* None, else {N}), event_counter, shutdown_requested, shutdowns (the
    \* graceful_shutdown tasks created), pc (per request: "idle" | "body" |
    \* "log" | "done"), shutdownPc (graceful_shutdown: "none" | "sleep" |
    \* "stopped" | "killed")
    app_state,
    \* MockServer and its mock_handler calls for one method and path: routes
    \* (self.routes: per route key, the method keys of its dict), path (as
    \* characters), method, n (requests made), sleeps (the delay of the config
    \* is positive), seqLen (len(sequence) of a configured route, 0: no
    \* sequence), call_counts (self.call_counts[route_key]), call_num (per
    \* call), order (the calls in the order they were counted), config (per
    \* call: what _get_response_config returned), element (per call: the
    \* sequence element served, 0: none), pc (per call: "idle" | "sleep" |
    \* "done")
    mock

lvars == <<started, startCalls, stopCalls, loops, closes>>
fvars == <<forward_retries, forward_concurrency, queue, putters, woken, semValue,
           workerTask, httpClient, proc, stopPc, nextEvent, log, slept, accepted,
           dequeued, firstStart, dropped, failedLog, returned, lvars>>
rcfg == <<rN, rTarget, rBad, fixed_delay, replay_once, rate, rTs, rMaxRpsArg, max_rps,
          rMinInterval, rSource, rFile>>
rload == <<rLine, rEvents, rSkipped>>
rvars == <<rcfg, rload, rIdx, rPc, rAttempt, rNow, rLastRequestTime, rStartTime, rClient,
           rCloses, rSlow, rLog, rSlept, rWarned, rFailed, rReturned, rSends, rAdmits,
           rDelays>>
hvars == <<hSender, hEvent, hRequest, hIncoming>>
ovars == <<events_file, app_state, mock>>
vars == <<program, fvars, rvars, hvars, ovars>>

\* The programs that own a Forwarder with forward_url set
ForwarderPrograms == {"forward", "server"}

\* A bare Forwarder is started and stopped once; the server's Forwarder gets
\* the startup hook's start(), the lazy start of EventLogger.log and stop()
\* from graceful_shutdown and from the shutdown hook.
StartBudget == IF program = "server" THEN MaxStarts ELSE 1
StopBudget == IF program = "server" THEN MaxStops ELSE 1

Idle == [pc |-> "idle", event |-> NoEvent, attempt |-> 0]

\* ------------------------------------------------------------- Forwarder

\* Faulty variant: one iteration too many
AttemptRange_OneMore == 0..forward_retries

\* range(self.forward_retries)
AttemptRange == 0..(forward_retries - 1)

\* attempt == self.forward_retries - 1
IsLastAttempt(attempt) == attempt = forward_retries - 1

\* Faulty variant: the break after a delivered request is missing
ForwardSucceeded_NoBreak(o) == FALSE

\* await self._forward_request(event) returned without raising: break
ForwardSucceeded(o) == o.kind = "response"

\* asyncio.sleep(2 ** attempt)
Backoff(attempt) == Pow2(attempt)

\* Faulty variant: the capacity check is off by one
QueueFull_OffByOne(q) == Len(q) > MAX_QUEUE_SIZE

\* asyncio.Queue(maxsize=self.MAX_QUEUE_SIZE).full()
QueueFull(q) == Len(q) >= MAX_QUEUE_SIZE

\* Faulty variant: the semaphore never makes a caller wait
SemaphoreLocked_Never == semValue < 0

\* Faulty variant: the last permit is never handed out
SemaphoreLocked_OffByOne == semValue <= 1

\* async with self._semaphore: the caller has to wait
SemaphoreLocked == semValue = 0

InFlight == {c \in Callers : proc[c].pc = "request"}

\* Faulty variant: a caller in its backoff sleep is taken to hold no permit
HoldsPermit_NotAsleep(c) == proc[c].pc = "request"

\* Inside the with-block of _process_forward: in a request or a backoff sleep
HoldsPermit(c) == proc[c].pc \in {"request", "sleep"}

\* Faulty variant: the drain loop handles one event and ends
AfterReturn_NoLoop(c) == [pc |-> "done", event |-> NoEvent, attempt |-> 0]

\* _process_forward returns to its caller; the drain loop calls task_done
\* and goes back to queue.get().
AfterReturn(c) == IF c = W THEN [pc |-> "get", event |-> NoEvent, attempt |-> 0]
                  ELSE [pc |-> "done", event |-> NoEvent, attempt |-> 0]

\* The with-block is left: the permit is released (v is the value while held).
Release(c, e, v) ==
    /\ semValue' = v + 1
    /\ proc' = [proc EXCEPT ![c] = AfterReturn(c)]
    /\ returned' = returned \cup {e}

\* _forward_request: _get_http_client creates the client on first use,
\* then client.request is awaited.
StartRequest(c, e, a, v) ==
    /\ semValue' = v
    /\ proc' = [proc EXCEPT ![c] = [pc |-> "request", event |-> e, attempt |-> a]]
    /\ log' = [log EXCEPT ![e] = Append(@, Pending)]
    /\ httpClient' = IF httpClient = "none" THEN "open" ELSE httpClient
    /\ firstStart' = IF a = 0 /\ c = W THEN Append(firstStart, e) ELSE firstStart
    /\ UNCHANGED returned

\* The for loop moves to attempt a (or ends, leaving the with-block).
Iterate(c, e, a, v) ==
    IF a \in AttemptRange
    THEN StartRequest(c, e, a, v)
    ELSE /\ Release(c, e, v)
         /\ UNCHANGED <<log, httpClient, firstStart>>

\* _process_forward(event) is entered: acquire the semaphore or wait for it.
Enter(c, e) ==
    IF SemaphoreLocked
    THEN /\ proc' = [proc EXCEPT ![c] = [pc |-> "acquire", event |-> e, attempt |-> 0]]
         /\ UNCHANGED <<semValue, log, httpClient, firstStart, returned>>
    ELSE Iterate(c, e, 0, semValue - 1)

\* Faulty variant: a LifoQueue: get takes the newest item
QueueGet_Lifo(q) == <<q[Len(q)], SubSeq(q, 1, Len(q) - 1)>>

\* asyncio.Queue.get on a non-empty queue: the oldest item and the rest
QueueGet(q) == <<Head(q), Tail(q)>>

\* Queue.put_nowait
PutNowait(e) ==
    /\ queue' = Append(queue, e)
    /\ accepted' = Append(accepted, e)

\* Queue._wakeup_next(self._putters)
WakeNextPutter(ps, wk) ==
    IF ps # <<>> THEN <<Tail(ps), wk \cup {Head(ps)}>> ELSE <<ps, wk>>

\* Faulty variant: a finished task does not count
NoWorkerTask_UnlessDone(t) == t \in {"none", "ended"}

\* Faulty variant: start() does not look at _worker_task
NoWorkerTask_Always(t) == TRUE

\* not self._worker_task (a Task object, running or finished, is truthy)
NoWorkerTask(t) == t = "none"

\* Forwarder.start: create the drain-loop task unless there is one
StartBody ==
    /\ startCalls' = startCalls + 1
    /\ IF NoWorkerTask(workerTask)
       THEN /\ workerTask' = "running"
            /\ proc' = [proc EXCEPT ![W] = [pc |-> "get", event |-> NoEvent, attempt |-> 0]]
            /\ loops' = loops + 1
       ELSE UNCHANGED <<workerTask, proc, loops>>

\* start() called on the Forwarder: by a test, or by the server's startup hook
Start ==
    /\ program \in ForwarderPrograms
    /\ startCalls < StartBudget
    /\ StartBody
    /\ UNCHANGED <<program, ovars, hvars, rvars, forward_retries, forward_concurrency, queue, putters,
                   woken, semValue, httpClient, stopPc, nextEvent, log, slept, accepted,
                   dequeued, firstStart, dropped, failedLog, returned, started,
                   stopCalls, closes>>

\* wait_for(queue.put(event), timeout=1.0): put now or block on the full queue
Put(e) ==
    IF QueueFull(queue)
    THEN /\ putters' = Append(putters, e)
         /\ UNCHANGED <<queue, accepted>>
    ELSE /\ PutNowait(e)
         /\ UNCHANGED putters

\* EventLogger.log: the lazy start on the first call, then
\* coordinator.handle_event hands the event to forward_event.
Log ==
    /\ program = "server"
    /\ nextEvent <= MaxEvents
    /\ nextEvent' = nextEvent + 1
    /\ IF ~started
       THEN StartBody
       ELSE UNCHANGED <<startCalls, workerTask, proc, loops>>
    /\ started' = TRUE
    /\ Put(nextEvent)
    /\ UNCHANGED <<program, ovars, hvars, rvars, forward_retries, forward_concurrency, woken, semValue,
                   httpClient, stopPc, log, slept, dequeued, firstStart, dropped,
                   failedLog, returned, stopCalls, closes>>

\* Forwarder.forward_event: put with a 1 s timeout
ForwardEvent ==
    /\ program = "forward"
    /\ nextEvent <= MaxEvents
    /\ nextEvent' = nextEvent + 1
    /\ Put(nextEvent)
    /\ UNCHANGED <<program, ovars, hvars, rvars, lvars, forward_retries, forward_concurrency, woken, semValue,
                   workerTask, httpClient, proc, stopPc, log, slept, dequeued, firstStart,
                   dropped, failedLog, returned>>

\* A put that was woken by a get runs again: it re-checks full().
PutResume(e) ==
    /\ program \in ForwarderPrograms
    /\ e \in woken
    /\ woken' = woken \ {e}
    /\ IF QueueFull(queue)
       THEN /\ putters' = Append(putters, e)
            /\ UNCHANGED <<queue, accepted>>
       ELSE /\ PutNowait(e)
            /\ UNCHANGED putters
    /\ UNCHANGED <<program, ovars, hvars, rvars, lvars, forward_retries, forward_concurrency, semValue,
                   workerTask, httpClient, proc, stopPc, nextEvent, log, slept, dequeued,
                   firstStart, dropped, failedLog, returned>>

\* wait_for's timeout fires on a blocked put: TimeoutError is caught and the
\* event is dropped. A put that was already woken hands its wake-up on.
PutTimeout(e) ==
    /\ program \in ForwarderPrograms
    /\ \/ /\ \E i \in 1..Len(putters) : putters[i] = e /\ putters' = RemoveAt(putters, i)
          /\ UNCHANGED woken
       \/ /\ e \in woken
          /\ LET nxt == IF QueueFull(queue) THEN <<putters, woken \ {e}>>
                        ELSE WakeNextPutter(putters, woken \ {e})
             IN /\ putters' = nxt[1]
                /\ woken' = nxt[2]
    /\ dropped' = dropped \cup {e}
    /\ UNCHANGED <<program, ovars, hvars, rvars, lvars, forward_retries, forward_concurrency, queue, semValue,
                   workerTask, httpClient, proc, stopPc, nextEvent, log, slept, accepted,
                   dequeued, firstStart, failedLog, returned>>

\* _forward_worker: event = await queue.get(); await _process_forward(event)
WorkerGet ==
    /\ program \in ForwarderPrograms
    /\ workerTask = "running"
    /\ proc[W].pc = "get"
    /\ queue # <<>>
    /\ LET e == QueueGet(queue)[1]
           nxt == WakeNextPutter(putters, woken)
       IN /\ queue' = QueueGet(queue)[2]
          /\ dequeued' = Append(dequeued, e)
          /\ putters' = nxt[1]
          /\ woken' = nxt[2]
          /\ Enter(W, e)
    /\ UNCHANGED <<program, ovars, hvars, rvars, lvars, forward_retries, forward_concurrency, workerTask,
                   stopPc, nextEvent, slept, accepted, dropped, failedLog>>

\* A test or another coroutine awaits _process_forward(event) itself.
DirectCall(c) ==
    /\ program = "forward"
    /\ c \in DirectCallers
    /\ proc[c].pc = "idle"
    /\ \A d \in DirectCallers : d < c => proc[d].pc # "idle"   \* callers are interchangeable
    /\ nextEvent <= MaxEvents
    /\ nextEvent' = nextEvent + 1
    /\ Enter(c, nextEvent)
    /\ UNCHANGED <<program, ovars, hvars, rvars, lvars, forward_retries, forward_concurrency, queue, putters,
                   woken, workerTask, stopPc, slept, accepted, dequeued,
                   dropped, failedLog>>

Runnable(c) == program \in ForwarderPrograms /\ (c = W => workerTask = "running")

\* A waiter on the semaphore gets a permit.
Acquire(c) ==
    /\ Runnable(c)
    /\ proc[c].pc = "acquire"
    /\ ~SemaphoreLocked
    /\ Iterate(c, proc[c].event, 0, semValue - 1)
    /\ UNCHANGED <<program, ovars, hvars, rvars, lvars, forward_retries, forward_concurrency, queue, putters,
                   woken, workerTask, stopPc, nextEvent, slept, accepted, dequeued,
                   dropped, failedLog>>

\* client.request returns a response or raises.
RequestReturns(c, o) ==
    /\ Runnable(c)
    /\ proc[c].pc = "request"
    /\ LET e == proc[c].event
           a == proc[c].attempt
       IN IF ForwardSucceeded(o)
          THEN /\ log' = [log EXCEPT ![e] = Append(SubSeq(@, 1, Len(@) - 1), o)]
               /\ Release(c, e, semValue)
               /\ UNCHANGED <<failedLog, slept, httpClient, firstStart>>
          ELSE IF IsLastAttempt(a)
          THEN /\ failedLog' = failedLog \cup {e}
               /\ slept' = slept
               /\ LET l == [log EXCEPT ![e] = Append(SubSeq(@, 1, Len(@) - 1), o)]
                  IN IF a + 1 \in AttemptRange
                     THEN /\ log' = [l EXCEPT ![e] = Append(@, Pending)]
                          /\ proc' = [proc EXCEPT ![c].attempt = a + 1]
                          /\ UNCHANGED <<semValue, returned>>
                     ELSE /\ log' = l
                          /\ Release(c, e, semValue)
               /\ UNCHANGED <<httpClient, firstStart>>
          ELSE /\ log' = [log EXCEPT ![e] = Append(SubSeq(@, 1, Len(@) - 1), o)]
               /\ slept' = [slept EXCEPT ![e] = Append(@, Backoff(a))]
               /\ proc' = [proc EXCEPT ![c].pc = "sleep"]
               /\ UNCHANGED <<failedLog, semValue, returned, httpClient, firstStart>>
    /\ UNCHANGED <<program, ovars, hvars, rvars, lvars, forward_retries, forward_concurrency, queue, putters,
                   woken, workerTask, stopPc, nextEvent, accepted, dequeued, dropped>>

\* The backoff sleep is over: next iteration of the for loop.
SleepEnds(c) ==
    /\ Runnable(c)
    /\ proc[c].pc = "sleep"
    /\ Iterate(c, proc[c].event, proc[c].attempt + 1, semValue)
    /\ UNCHANGED <<program, ovars, hvars, rvars, lvars, forward_retries, forward_concurrency, queue, putters,
                   woken, workerTask, stopPc, nextEvent, slept, accepted, dequeued,
                   dropped, failedLog>>

\* Faulty variant: aclose() is called without looking at _http_client
HasClient_Always(h) == TRUE

\* if self._http_client (a client object, open or closed, is truthy)
HasClient(h) == h # "none"

\* Faulty variant: stop() does not await the cancelled task
TaskDone_NoAwait(t) == TRUE

\* await self._worker_task is over: the task has finished
TaskDone(t) == t = "ended"

\* The end of stop(): if self._http_client: await self._http_client.aclose()
CloseClient ==
    /\ stopPc' = "done"
    /\ IF HasClient(httpClient)
       THEN /\ httpClient' = "closed"
            /\ closes' = closes + 1
       ELSE UNCHANGED <<httpClient, closes>>

\* Forwarder.stop: cancel the drain loop and await it, then close the client.
StopBegin ==
    /\ program \in ForwarderPrograms
    /\ stopPc \in {"idle", "done"}
    /\ stopCalls < StopBudget
    /\ stopCalls' = stopCalls + 1
    /\ IF workerTask = "none" \/ TaskDone(workerTask)
       THEN /\ CloseClient
            /\ UNCHANGED workerTask
       ELSE /\ workerTask' = "cancelling"
            /\ stopPc' = "awaiting"
            /\ UNCHANGED <<httpClient, closes>>
    /\ UNCHANGED <<program, ovars, hvars, rvars, started, startCalls, loops, forward_retries, forward_concurrency, queue, putters,
                   woken, semValue, proc, nextEvent, log, slept, accepted, dequeued,
                   firstStart, dropped, failedLog, returned>>

\* CancelledError is thrown into the drain loop at its await: it is not an
\* Exception, so it leaves _process_forward (releasing the permit) and the
\* loop breaks.
WorkerCancelled ==
    /\ program \in ForwarderPrograms
    /\ workerTask = "cancelling"
    /\ workerTask' = "ended"
    /\ proc' = [proc EXCEPT ![W] = [pc |-> "cancelled", event |-> NoEvent, attempt |-> 0]]
    /\ semValue' = IF HoldsPermit(W) THEN semValue + 1 ELSE semValue
    /\ log' = IF proc[W].pc = "request"
              THEN [log EXCEPT ![proc[W].event] = Append(SubSeq(@, 1, Len(@) - 1), Abandoned)]
              ELSE log
    /\ UNCHANGED <<program, ovars, hvars, rvars, lvars, forward_retries, forward_concurrency, queue, putters,
                   woken, httpClient, stopPc, nextEvent, slept, accepted, dequeued,
                   firstStart, dropped, failedLog, returned>>

\* The drain loop has ended: stop() goes on after its await.
StopReturn ==
    /\ program \in ForwarderPrograms
    /\ stopPc = "awaiting"
    /\ TaskDone(workerTask)
    /\ CloseClient
    /\ UNCHANGED <<program, ovars, hvars, rvars, started, startCalls, stopCalls, loops, forward_retries, forward_concurrency, queue, putters,
                   woken, semValue, workerTask, proc, nextEvent, log, slept, accepted,
                   dequeued, firstStart, dropped, failedLog, returned>>

\* In the server the drain loop is the only caller of _process_forward: the
\* values of forward_concurrency from 1 up differ in the free permits only
InitForwarder ==
    /\ forward_retries \in 0..MaxRetries
    /\ forward_concurrency \in IF program = "server" THEN {0, 1, MaxConcurrency}
                              ELSE 0..MaxConcurrency
    /\ queue = <<>>
    /\ putters = <<>>
    /\ woken = {}
    /\ semValue = forward_concurrency
    /\ workerTask = "none"
    /\ httpClient = "none"
    /\ proc = [c \in Callers |-> Idle]
    /\ stopPc = "idle"
    /\ nextEvent = 1
    /\ log = [e \in Events |-> <<>>]
    /\ slept = [e \in Events |-> <<>>]
    /\ accepted = <<>>
    /\ dequeued = <<>>
    /\ firstStart = <<>>
    /\ dropped = {}
    /\ failedLog = {}
    /\ returned = {}
    /\ started = FALSE
    /\ startCalls = 0
    /\ stopCalls = 0
    /\ loops = 0
    /\ closes = 0

\* ------------------------------------------------------------- EventReplayer

\* range(max_retries)
ReplayAttemptRange == 0..(max_retries - 1)

\* attempt < max_retries - 1
ReplayRetryLeft(attempt) == attempt < max_retries - 1

\* Faulty variant: the boundary is off by one: 500 counts as delivered
ReplaySucceeded_OffByOne(o) == o.kind = "response" /\ o.status <= 500

\* response.status_code < 500: return
ReplaySucceeded(o) == o.kind = "response" /\ o.status < 500

\* Faulty variant: the backoff grows linearly from zero
ReplayBackoff_Linear(attempt) == 2 * attempt

\* asyncio.sleep(2 ** attempt)
ReplayBackoff(attempt) == Pow2(attempt)

\* Which policy _replay_events follows
\* Faulty variant: replay_once is tested before fixed_delay
Mode_OnceFirst == IF replay_once THEN "once" ELSE IF fixed_delay > 0 THEN "fixed" ELSE "fast"

Mode == IF fixed_delay > 0 THEN "fixed" ELSE IF replay_once THEN "once" ELSE "fast"

\* _replay_event prints the progress line for this index; it reads
\* event['method'] and event['path'].  With fewer than 20 events
\* total // 10 <= 1 and every index is reported.
ProgressReported(i, total) ==
    i = 1 \/ i = total \/ i % (IF total \div 10 > 1 THEN total \div 10 ELSE 1) = 0

\* Faulty variant: the gap is not scaled by the rate
OriginalDelay_NoRate(i) == rTs[i] - rStartTime

\* (event_time - start_time).total_seconds() / self.rate
OriginalDelay(i) == (rTs[i] - rStartTime) \div rate

\* Faulty variant: the client is closed on the normal path only (no finally)
ReplayFinally_Leak == UNCHANGED <<rClient, rCloses>>

\* finally: if self._http_client: await self._http_client.aclose()
ReplayFinally ==
    IF rClient # "none"
    THEN rClient' = "closed" /\ rCloses' = rCloses + 1
    ELSE UNCHANGED <<rClient, rCloses>>

\* An exception leaves _replay_events: replay() logs it, runs the finally
\* block and re-raises.
ReplayRaise ==
    /\ rPc' = "raised"
    /\ ReplayFinally

\* _send_event returns to _replay_event, which returns to the loop of _replay_events.
ReplayReturn(i) ==
    /\ rReturned' = rReturned \cup {i}
    /\ rPc' = "sent"
    /\ rAttempt' = 0

\* The for loop of _send_event moves to attempt a: _get_http_client creates
\* the client on first use and client.request is awaited, or the loop is
\* over and _send_event returns.
ReplayIterate(i, a, l) ==
    IF a \in ReplayAttemptRange
    THEN /\ rLog' = [l EXCEPT ![i] = Append(@, Pending)]
         /\ rPc' = "request"
         /\ rAttempt' = a
         /\ rClient' = IF rClient = "none" THEN "open" ELSE rClient
         /\ UNCHANGED rReturned
    ELSE /\ rLog' = l
         /\ ReplayReturn(i)
         /\ UNCHANGED rClient

\* Faulty variant: the loop starts at the second record
NextEvent_SkipFirst(i) == IF i = 0 THEN 2 ELSE i + 1

\* for i, event in enumerate(events, 1): the index after i
NextEvent(i) == i + 1

\* The lines an events file is made of: a record, text that is not JSON,
\* and a line of white space only.
LineTexts == {"json", "not json", " "}

\* line.strip()
Strip(line) == IF line = " " THEN "" ELSE line

\* json.loads(line) returns (it raises JSONDecodeError otherwise)
JsonLoads(line) == line = "json"

\* Faulty variant: a line that does not parse is kept as a record
Parsed_KeepInvalid(events, n, line) == Append(events, n)

\* try: event = json.loads(line); events.append(event)
\* except json.JSONDecodeError: warning.  The record of line n is named n.
Parsed(events, n, line) == IF JsonLoads(line) THEN Append(events, n) ELSE events

\* Faulty variant: a missing or unreadable file is taken as an empty one
OpenFails_Swallowed(src) == FALSE

\* open(self.events_file, 'r', encoding='utf-8') raises
OpenFails(src) == src # "ok"

\* Faulty variant: the empty list is not tested for
NoEvents_Never(events) == FALSE

\* if not events:
NoEvents(events) == events = <<>>

\* if rate <= 0 / if delay < 0 / if max_rps <= 0: error and return
InvalidOptions(r, d, m) == r <= 0 \/ d < 0 \/ m <= 0

\* if not file_path.exists() / if not os.access(file_path, os.R_OK): error and return
FileRefused(src) == src # "ok"

\* The replay command: the options and the file are validated, then the
\* EventReplayer is built and asyncio.run(replayer.replay()) is called.
CliReplay ==
    /\ program = "replay"
    /\ rPc = "cli"
    /\ rPc' = IF InvalidOptions(rate, fixed_delay, rMaxRpsArg) \/ FileRefused(rSource)
              THEN "rejected"
              ELSE "init"
    /\ UNCHANGED <<program, ovars, hvars, fvars, rcfg, rload, rSlow, rIdx, rAttempt, rNow, rLastRequestTime,
                   rStartTime, rClient, rCloses, rLog, rSlept, rWarned, rFailed,
                   rReturned, rSends, rAdmits, rDelays>>

\* replay() calls _load_events, which opens the file.  A file that is missing
\* or cannot be opened: the error is logged and raised, and replay(), which
\* calls _load_events outside its try block, passes it on.
ReplayOpen ==
    /\ program = "replay"
    /\ rPc = "init"
    /\ rPc' = IF OpenFails(rSource) THEN "raised" ELSE "load"
    /\ UNCHANGED <<program, ovars, hvars, fvars, rcfg, rload, rSlow, rIdx, rAttempt, rNow, rLastRequestTime,
                   rStartTime, rClient, rCloses, rLog, rSlept, rWarned, rFailed,
                   rReturned, rSends, rAdmits, rDelays>>

\* One turn of the loop of _load_events: a line that is empty after strip()
\* is passed over, a line that parses is appended, any other is logged and
\* skipped.
LoadLine ==
    /\ program = "replay"
    /\ rPc = "load"
    /\ rLine < Len(rFile)
    /\ LET n == rLine + 1
           line == Strip(rFile[n])
       IN /\ rLine' = n
          /\ IF line = ""
             THEN UNCHANGED <<rEvents, rSkipped>>
             ELSE /\ rEvents' = Parsed(rEvents, n, line)
                  /\ rSkipped' = IF JsonLoads(line) THEN rSkipped ELSE rSkipped \cup {n}
    /\ UNCHANGED <<program, ovars, hvars, fvars, rcfg, rSlow, rIdx, rPc, rAttempt, rNow, rLastRequestTime,
                   rStartTime, rClient, rCloses, rLog, rSlept, rWarned, rFailed,
                   rReturned, rSends, rAdmits, rDelays>>

\* replay(): _load_events has returned; an empty list returns before the
\* try block, any other is handed to _replay_events.
ReplayBegin ==
    /\ program = "replay"
    /\ rPc = "load"
    /\ rLine = Len(rFile)
    /\ rPc' = IF NoEvents(rEvents) THEN "done" ELSE "next"
    /\ UNCHANGED <<program, ovars, hvars, fvars, rcfg, rload, rSlow, rIdx, rAttempt, rNow, rLastRequestTime,
                   rStartTime, rClient, rCloses, rLog, rSlept, rWarned, rFailed,
                   rReturned, rSends, rAdmits, rDelays>>

\* The loop of _replay_events takes the next event.  As fast as possible:
\* the rate limiter first.  Fixed delay: the event first.  Original timing:
\* parse the timestamp; the first event goes out at once, a later one after
\* the scaled gap (if positive) and the rate limiter.
ReplayNext ==
    /\ program = "replay"
    /\ rPc = "next"
    /\ rIdx < rN
    /\ rIdx' = NextEvent(rIdx)
    /\ LET i == NextEvent(rIdx)
       IN CASE Mode = "fast" ->
                 /\ rPc' = "limit"
                 /\ UNCHANGED <<rStartTime, rDelays, rClient, rCloses>>
            [] Mode = "fixed" ->
                 /\ rPc' = "send"
                 /\ UNCHANGED <<rStartTime, rDelays, rClient, rCloses>>
            [] Mode = "once" ->
                 IF i = rBad
                 THEN \* _parse_timestamp(None) raises
                      /\ ReplayRaise
                      /\ UNCHANGED <<rStartTime, rDelays>>
                 ELSE IF rStartTime = NoTime
                 THEN /\ rStartTime' = rTs[i]
                      /\ rPc' = "send"
                      /\ UNCHANGED <<rDelays, rClient, rCloses>>
                 ELSE IF rate = 0
                 THEN \* float division by zero
                      /\ ReplayRaise
                      /\ UNCHANGED <<rStartTime, rDelays>>
                 ELSE IF OriginalDelay(i) > 0
                 THEN /\ rDelays' = Append(rDelays, [before |-> i, ticks |-> OriginalDelay(i), policy |-> "original"])
                      /\ rPc' = "delay"
                      /\ UNCHANGED <<rStartTime, rClient, rCloses>>
                 ELSE /\ rPc' = "limit"
                      /\ UNCHANGED <<rStartTime, rDelays, rClient, rCloses>>
    /\ UNCHANGED <<program, ovars, hvars, fvars, rcfg, rload, rSlow, rAttempt, rNow, rLastRequestTime, rLog, rSlept,
                   rWarned, rFailed, rReturned, rSends, rAdmits>>

\* Faulty variant: the limiter never sleeps
MustWait_Never(t) == FALSE

\* _apply_rate_limit at time t: _last_request_time is set, max_rps is
\* positive and less than min_interval has elapsed since
MustWait(t) ==
    /\ rLastRequestTime # NoTime
    /\ max_rps > 0
    /\ t - rLastRequestTime < rMinInterval

\* self._last_request_time = loop.time(): the limiter admits the caller at
\* time t.  In fixed-delay mode asyncio.sleep(fixed_delay) follows, in the
\* other modes _replay_event.
Admit(t) ==
    /\ rLastRequestTime' = t
    /\ rAdmits' = Append(rAdmits, t)
    /\ IF Mode = "fixed"
       THEN /\ rPc' = "delay"
            /\ rDelays' = Append(rDelays, [before |-> rIdx + 1, ticks |-> fixed_delay, policy |-> "fixed"])
       ELSE /\ rPc' = "send"
            /\ UNCHANGED rDelays

\* _apply_rate_limit is called.
ReplayLimit ==
    /\ program = "replay"
    /\ rPc = "limit"
    /\ IF MustWait(rNow)
       THEN /\ rPc' = "limitSleep"
            /\ UNCHANGED <<rLastRequestTime, rAdmits, rDelays>>
       ELSE Admit(rNow)
    /\ UNCHANGED <<program, ovars, hvars, fvars, rcfg, rload, rSlow, rIdx, rAttempt, rNow, rStartTime, rClient,
                   rCloses, rLog, rSlept, rWarned, rFailed, rReturned, rSends>>

\* asyncio.sleep(min_interval - elapsed) is over.
ReplayLimitSleepEnds ==
    /\ program = "replay"
    /\ rPc = "limitSleep"
    /\ rNow' = rNow + (rMinInterval - (rNow - rLastRequestTime))
    /\ Admit(rNow')
    /\ UNCHANGED <<program, ovars, hvars, fvars, rcfg, rload, rSlow, rIdx, rAttempt, rStartTime, rClient, rCloses,
                   rLog, rSlept, rWarned, rFailed, rReturned, rSends>>

\* The sleep between two events (fixed delay, or the scaled original gap) is over.
ReplayDelayEnds ==
    /\ program = "replay"
    /\ rPc = "delay"
    /\ rNow' = rNow + rDelays[Len(rDelays)].ticks
    /\ rPc' = IF Mode = "fixed" THEN "next" ELSE "limit"
    /\ UNCHANGED <<program, ovars, hvars, fvars, rcfg, rload, rSlow, rIdx, rAttempt, rLastRequestTime, rStartTime,
                   rClient, rCloses, rLog, rSlept, rWarned, rFailed, rReturned, rSends,
                   rAdmits, rDelays>>

\* Faulty variant: an event is delivered whether or not a target is set
TargetSet_Always(url) == TRUE

\* if self.target_url:
TargetSet(url) == url

\* _replay_event: the progress line (KeyError on a record without method or
\* path), then _send_event with a target, a printed summary without.
ReplaySend ==
    /\ program = "replay"
    /\ rPc = "send"
    /\ IF rIdx = rBad /\ ProgressReported(rIdx, rN)
       THEN /\ ReplayRaise
            /\ UNCHANGED <<rSends, rLog, rAttempt, rReturned>>
       ELSE /\ rSends' = Append(rSends, [event |-> rIdx, at |-> rNow])
            /\ IF TargetSet(rTarget)
               THEN /\ ReplayIterate(rIdx, 0, rLog)
                    /\ UNCHANGED rCloses
               ELSE /\ rPc' = "sent"
                    /\ UNCHANGED <<rLog, rAttempt, rReturned, rClient, rCloses>>
    /\ UNCHANGED <<program, ovars, hvars, fvars, rcfg, rload, rSlow, rIdx, rNow, rLastRequestTime, rStartTime,
                   rSlept, rWarned, rFailed, rAdmits, rDelays>>

\* client.request returns a response or raises, d ticks after the call.
ReplayRequestReturns(o, d) ==
    /\ program = "replay"
    /\ rPc = "request"
    /\ d > 0 => ~rSlow
    /\ rSlow' = (rSlow \/ d > 0)
    /\ rNow' = rNow + d
    /\ LET i == rIdx
           l == [rLog EXCEPT ![i] = Append(SubSeq(@, 1, Len(@) - 1), o)]
       IN IF ReplaySucceeded(o)
          THEN /\ rLog' = l
               /\ ReplayReturn(i)
               /\ UNCHANGED <<rSlept, rWarned, rFailed, rClient>>
          ELSE IF ReplayRetryLeft(rAttempt)
          THEN \* warning "retrying...", then the backoff sleep (both branches)
               /\ rLog' = l
               /\ rWarned' = [rWarned EXCEPT ![i] = @ + 1]
               /\ rSlept' = [rSlept EXCEPT ![i] = Append(@, ReplayBackoff(rAttempt))]
               /\ rPc' = "sleep"
               /\ UNCHANGED <<rAttempt, rFailed, rReturned, rClient>>
          ELSE \* only the except branch logs "Failed to send event after N attempts"
               /\ rFailed' = IF o.kind = "exception" THEN rFailed \cup {i} ELSE rFailed
               /\ ReplayIterate(i, rAttempt + 1, l)
               /\ UNCHANGED <<rSlept, rWarned>>
    /\ UNCHANGED <<program, ovars, hvars, fvars, rcfg, rload, rIdx, rLastRequestTime, rStartTime,
                   rCloses, rSends, rAdmits, rDelays>>

\* The backoff sleep is over: next iteration of the for loop.
ReplaySleepEnds ==
    /\ program = "replay"
    /\ rPc = "sleep"
    /\ rNow' = rNow + TicksPerSecond * rSlept[rIdx][Len(rSlept[rIdx])]
    /\ ReplayIterate(rIdx, rAttempt + 1, rLog)
    /\ UNCHANGED <<program, ovars, hvars, fvars, rcfg, rload, rSlow, rIdx, rLastRequestTime, rStartTime, rCloses,
                   rSlept, rWarned, rFailed, rSends, rAdmits, rDelays>>

\* Faulty variant: the sleep also follows the last event
NotLast_Always(i, total) == TRUE

\* if i < total
NotLast(i, total) == i < total

\* _replay_event has returned to the loop of _replay_events.
ReplayAfterSend ==
    /\ program = "replay"
    /\ rPc = "sent"
    /\ CASE Mode = "fast" -> rPc' = "next" /\ UNCHANGED rStartTime
         [] Mode = "once" -> rPc' = "next" /\ rStartTime' = rTs[rIdx]
         [] Mode = "fixed" -> /\ rPc' = IF NotLast(rIdx, rN) THEN "limit" ELSE "next"
                              /\ UNCHANGED rStartTime
    /\ UNCHANGED <<program, ovars, hvars, fvars, rcfg, rload, rSlow, rIdx, rAttempt, rNow, rLastRequestTime, rClient,
                   rCloses, rLog, rSlept, rWarned, rFailed, rReturned, rSends, rAdmits,
                   rDelays>>

\* _replay_events has processed every event: replay() runs the finally block
\* and returns.
ReplayComplete ==
    /\ program = "replay"
    /\ rPc = "next"
    /\ rIdx = rN
    /\ rPc' = "done"
    /\ ReplayFinally
    /\ UNCHANGED <<program, ovars, hvars, fvars, rcfg, rload, rSlow, rIdx, rAttempt, rNow, rLastRequestTime,
                   rStartTime, rLog, rSlept, rWarned, rFailed, rReturned, rSends,
                   rAdmits, rDelays>>

\* Timestamps of the loaded events: the first is T0, each later one differs
\* from its predecessor by gap[i] * r ticks.
RECURSIVE TimestampAt(_, _, _)
TimestampAt(gap, r, i) == IF i = 1 THEN T0 ELSE TimestampAt(gap, r, i - 1) + gap[i] * r

\* The gaps read by a run: none unless replay_once is set; for a run that
\* sets replay_once and fixed_delay one rising sequence is enough.
GapChoices(n, delay, once) ==
    IF ~once THEN {[i \in 1..MaxReplayEvents |-> 0]}
    ELSE IF delay > 0 THEN {[i \in 1..MaxReplayEvents |-> IF i <= n THEN MaxGap ELSE 0]}
    ELSE {g \in [1..MaxReplayEvents -> {-MaxGap, 0, MaxGap}] :
             \A i \in 1..MaxReplayEvents : (i = 1 \/ i > n) => g[i] = 0}

\* The events files of at most MaxLines lines that hold n records
SourceFiles(n) ==
    {f \in UNION {[1..k -> LineTexts] : k \in 0..MaxLines} :
        Cardinality({i \in DOMAIN f : f[i] = "json"}) = n}

\* The file of n records and no other line
RecordsOnly(n) == [i \in 1..n |-> "json"]

\* EventReplayer.DEFAULT_MAX_RPS is 100.0; in the model's unit the default is
\* the highest rate, one request per tick.
DEFAULT_MAX_RPS == MaxInterval

\* self.max_rps = max_rps or self.DEFAULT_MAX_RPS
MaxRpsOrDefault(m) == IF m = 0 THEN DEFAULT_MAX_RPS ELSE m

\* min_interval = 1.0 / self.max_rps, read only where max_rps > 0
MinInterval(m) == IF m > 0 THEN MaxInterval \div m ELSE 0

\* The replay command with its options, or an EventReplayer built directly,
\* and the events file.  The loader
\* reads no setting, so files that mix records with other lines are run
\* as fast as possible without a target; files of records only, and files
\* without any record, under every setting.  Settings the replay command
\* refuses (a rate of 0, a negative delay, a max_rps of 0 or below) are run
\* on files of records only, without a target.  The malformed record is the
\* first or the last one; with a target all gaps of a file are equal, without
\* one they vary freely.
InitReplay ==
    LET EverySetting == rFile = RecordsOnly(rN) \/ rN = 0
        Unchecked == rFile = RecordsOnly(rN) /\ ~rTarget /\ rBad = 0
    IN
    /\ rN \in 0..MaxReplayEvents
    /\ rFile \in SourceFiles(rN)
    /\ rSource \in IF rFile = <<>> THEN {"ok", "missing", "unreadable"} ELSE {"ok"}
    /\ rTarget \in IF EverySetting THEN BOOLEAN ELSE {FALSE}
    /\ rBad \in IF EverySetting THEN {b \in 0..rN : b <= 1 \/ b = rN} ELSE {0}
    /\ \/ /\ fixed_delay \in IF EverySetting THEN {0, MaxDelay} ELSE {0}
          /\ replay_once \in IF EverySetting THEN BOOLEAN ELSE {FALSE}
          /\ rate = IF replay_once /\ fixed_delay = 0 THEN MaxRate ELSE 1
          /\ rMaxRpsArg \in IF EverySetting THEN {1, MaxInterval} ELSE {MaxInterval}
       \/ /\ Unchecked
          /\ fixed_delay \in {-MaxDelay, 0}
          /\ replay_once \in BOOLEAN
          /\ rate \in {0, IF replay_once THEN MaxRate ELSE 1}
          /\ rMaxRpsArg \in {-1, 0, MaxInterval}
          /\ InvalidOptions(rate, fixed_delay, rMaxRpsArg)
    /\ \E g \in GapChoices(rN, fixed_delay, replay_once) :
          /\ rTarget => \A i, j \in 2..rN : g[i] = g[j]
          /\ rTs = [i \in 1..MaxReplayEvents |-> TimestampAt(g, IF rate > 0 THEN rate ELSE 1, i)]
    /\ max_rps = MaxRpsOrDefault(rMaxRpsArg)
    /\ rMinInterval = MinInterval(max_rps)
    /\ rPc \in {"cli", "init"}
    /\ rIdx = 0
    /\ rAttempt = 0
    /\ rNow = 0
    /\ rLastRequestTime = NoTime
    /\ rStartTime = NoTime
    /\ rClient = "none"
    /\ rCloses = 0
    /\ rSlow = FALSE
    /\ rLog = [i \in 1..MaxReplayEvents |-> <<>>]
    /\ rSlept = [i \in 1..MaxReplayEvents |-> <<>>]
    /\ rWarned = [i \in 1..MaxReplayEvents |-> 0]
    /\ rFailed = {}
    /\ rReturned = {}
    /\ rSends = <<>>
    /\ rAdmits = <<>>
    /\ rDelays = <<>>
    /\ rLine = 0
    /\ rEvents = <<>>
    /\ rSkipped = {}

\* ------------------------------------------------------------- the two programs

\* The fields of a Forwarder with forward_url set (no replay runs in this process)
NoForwarder ==
    /\ forward_retries = 0
    /\ forward_concurrency = 0
    /\ queue = <<>>
    /\ putters = <<>>
    /\ woken = {}
    /\ semValue = 0
    /\ workerTask = "none"
    /\ httpClient = "none"
    /\ proc = [c \in Callers |-> Idle]
    /\ stopPc = "idle"
    /\ nextEvent = 1
    /\ log = [e \in Events |-> <<>>]
    /\ slept = [e \in Events |-> <<>>]
    /\ accepted = <<>>
    /\ dequeued = <<>>
    /\ firstStart = <<>>
    /\ dropped = {}
    /\ failedLog = {}
    /\ returned = {}
    /\ started = FALSE
    /\ startCalls = 0
    /\ stopCalls = 0
    /\ loops = 0
    /\ closes = 0

NoReplay ==
    /\ rN = 0
    /\ rMaxRpsArg = DEFAULT_MAX_RPS
    /\ max_rps = DEFAULT_MAX_RPS
    /\ rSource = "ok"
    /\ rFile = <<>>
    /\ rTarget = FALSE
    /\ rBad = 0
    /\ fixed_delay = 0
    /\ replay_once = FALSE
    /\ rate = 1
    /\ rTs = [i \in 1..MaxReplayEvents |-> T0]
    /\ rMinInterval = 1
    /\ rIdx = 0
    /\ rPc = "done"
    /\ rAttempt = 0
    /\ rNow = 0
    /\ rLastRequestTime = NoTime
    /\ rStartTime = NoTime
    /\ rClient = "none"
    /\ rCloses = 0
    /\ rSlow = FALSE
    /\ rSends = <<>>
    /\ rAdmits = <<>>
    /\ rDelays = <<>>
    /\ rLine = 0
    /\ rEvents = <<>>
    /\ rSkipped = {}
    /\ rLog = [i \in 1..MaxReplayEvents |-> <<>>]
    /\ rSlept = [i \in 1..MaxReplayEvents |-> <<>>]
    /\ rWarned = [i \in 1..MaxReplayEvents |-> 0]
    /\ rFailed = {}
    /\ rReturned = {}

NextForwarder ==
    \/ Start
    \/ ForwardEvent
    \/ Log
    \/ \E e \in Events : PutResume(e)
    \/ \E e \in Events : PutTimeout(e)
    \/ WorkerGet
    \/ \E c \in DirectCallers : DirectCall(c)
    \/ \E c \in Callers : Acquire(c)
    \/ \E c \in Callers, o \in Outcomes : RequestReturns(c, o)
    \/ \E c \in Callers : SleepEnds(c)
    \/ StopBegin
    \/ WorkerCancelled
    \/ StopReturn

NextReplay ==
    \/ CliReplay
    \/ ReplayOpen
    \/ LoadLine
    \/ ReplayBegin
    \/ ReplayNext
    \/ ReplayLimit
    \/ ReplayLimitSleepEnds
    \/ ReplayDelayEnds
    \/ ReplaySend
    \/ ReplayAfterSend
    \/ \E o \in Outcomes, d \in Latencies : ReplayRequestReturns(o, d)
    \/ ReplaySleepEnds
    \/ ReplayComplete

\* ------------------------------------------------------------- one outbound request

\* Header names an event may carry.  The server stores dict(request.headers),
\* whose names are lower case; a record of an events file has the names it
\* was written with.
HeaderNames == {"host", "Host", "content-type", "x-request-id"}

\* The value an event gives to header n
HeaderValue(n) ==
    CASE n \in {"host", "Host"} -> "original-host.com"
      [] n = "content-type" -> "text/plain"
      [] OTHER -> "abc"

\* The json field: None, a value that is false in a condition ({} or 0), or
\* any other parsed body.  The raw field: empty or text.
JsonFields == {"None", "{}", "{\"a\": 1}"}
RawFields == {"", "text"}
JsonTruthy(j) == j \notin {"None", "{}"}

NoRequest == [headers |-> <<>>, content |-> "not called"]

\* Request bodies: none, JSON texts, the JSON text null, text that is not
\* JSON, bytes that are not UTF-8
Bodies == {"", "{\"a\": 1}", "{}", "null", "text", "\\xff"}
ValidJson == {"{\"a\": 1}", "{}", "null"}
NotUtf8 == {"\\xff"}

NoIncoming == [headers |-> <<>>, body |-> "n/a"]
NotCreated == [headers |-> <<>>, json |-> "not created", raw |-> "not created"]

\* utils.safe_parse_json: None for an empty body, the parsed value for JSON
\* text (None for null), None when decoding or parsing raises
safe_parse_json(body_bytes) ==
    IF body_bytes = "" THEN "None"
    ELSE IF body_bytes \in NotUtf8 THEN "None"
    ELSE IF body_bytes \in ValidJson
         THEN (IF body_bytes = "null" THEN "None" ELSE body_bytes)
    ELSE "None"

\* utils.safe_decode_body: "" for an empty body, the decoded text, or the
\* base64 text of bytes that are not UTF-8
safe_decode_body(body_bytes) ==
    IF body_bytes = "" THEN ""
    ELSE IF body_bytes \in NotUtf8 THEN "/w=="
    ELSE body_bytes

\* dict.pop(key, None) on a dict held as a function
Pop(h, key) == [n \in DOMAIN h \ {key} |-> h[n]]

\* dict[key] = value
SetItem(h, key, value) == [n \in DOMAIN h \cup {key} |-> IF n = key THEN value ELSE h[n]]

\* _forward_request: headers = event['headers'].copy();
\* headers.pop('host', None); headers['content-type'] = 'application/json'
\* with a json body
OutboundHeaders(event) ==
    LET headers == Pop(event.headers, "host")
    IN IF JsonTruthy(event.json)
       THEN SetItem(headers, "content-type", "application/json")
       ELSE headers

\* _forward_request: body = json.dumps(event['json']), else event['raw'],
\* else None
OutboundBody(event) ==
    IF JsonTruthy(event.json) THEN event.json
    ELSE IF event.raw # "" THEN event.raw
    ELSE "None"

\* _send_event: the same statements, with event.get('json') and
\* event.get('raw') as the conditions
SendHeaders(event) ==
    LET headers == Pop(event.headers, "host")
    IN IF JsonTruthy(event.json)
       THEN SetItem(headers, "content-type", "application/json")
       ELSE headers

SendBody(event) ==
    IF JsonTruthy(event.json) THEN event.json
    ELSE IF event.raw # "" THEN event.raw
    ELSE "None"

\* Forwarder._forward_request calls client.request
ForwardRequest ==
    /\ program = "request"
    /\ hSender = "forwarder"
    /\ hEvent # NotCreated
    /\ hRequest = NoRequest
    /\ hRequest' = [headers |-> OutboundHeaders(hEvent), content |-> OutboundBody(hEvent)]
    /\ UNCHANGED <<program, ovars, fvars, rvars, hSender, hEvent, hIncoming>>

\* EventReplayer._send_event calls client.request
SendEvent ==
    /\ program = "request"
    /\ hSender = "replay"
    /\ hRequest = NoRequest
    /\ hRequest' = [headers |-> SendHeaders(hEvent), content |-> SendBody(hEvent)]
    /\ UNCHANGED <<program, ovars, fvars, rvars, hSender, hEvent, hIncoming>>

\* server.catch_all builds the event of the request and hands it to
\* EventLogger.log
CatchAll ==
    /\ program = "request"
    /\ hIncoming # NoIncoming
    /\ hEvent = NotCreated
    /\ hEvent' = [headers |-> hIncoming.headers,
                  json |-> safe_parse_json(hIncoming.body),
                  raw |-> safe_decode_body(hIncoming.body)]
    /\ UNCHANGED <<program, ovars, fvars, rvars, hSender, hRequest, hIncoming>>

\* Either an event is given (a record of an events file, or an event handed
\* to EventLogger.log), or the listener receives a request; the listener's
\* header names are lower-case (dict(request.headers))
InitRequest ==
    /\ \/ /\ hSender \in {"forwarder", "replay"}
          /\ \E names \in SUBSET HeaderNames, j \in JsonFields, r \in RawFields :
                hEvent = [headers |-> [n \in names |-> HeaderValue(n)], json |-> j, raw |-> r]
          /\ hIncoming = NoIncoming
       \/ /\ hSender = "forwarder"
          /\ hEvent = NotCreated
          /\ \E names \in SUBSET (HeaderNames \ {"Host"}), b \in Bodies :
                hIncoming = [headers |-> [n \in names |-> HeaderValue(n)], body |-> b]
    /\ hRequest = NoRequest

NoRequestBuilt ==
    /\ hSender = "forwarder"
    /\ hEvent = [headers |-> <<>>, json |-> "None", raw |-> ""]
    /\ hRequest = NoRequest
    /\ hIncoming = NoIncoming

NextRequest == ForwardRequest \/ SendEvent \/ CatchAll

\* ------------------------------------------------------ events file

\* The state of a program this process does not run
Unused == [pc |-> "unused"]

\* The number of events saved to the file
MaxSaved == 2

\* Strings of a raw field, as characters: plain text, a line feed, a
\* backslash before n, a quote
RawTexts == {<<>>, <<"n">>, <<"\n">>, <<"\\", "n">>, <<"\"">>, <<"n", "\n", "\\">>}

\* The events saved: the json and raw fields stand for all the fields
Records == [json : JsonFields, raw : RawTexts]

\* Faulty variant: a line feed is written as it is
RECURSIVE Escape_KeepLineFeed(_)
Escape_KeepLineFeed(s) ==
    IF s = <<>> THEN <<>>
    ELSE LET c == Head(s)
         IN (CASE c = "\\" -> <<"\\", "\\">>
               [] c = "\"" -> <<"\\", "\"">>
               [] OTHER -> <<c>>) \o Escape_KeepLineFeed(Tail(s))

\* json.dumps of a str: line feed, backslash and quote are escaped
RECURSIVE Escape(_)
Escape(s) ==
    IF s = <<>> THEN <<>>
    ELSE LET c == Head(s)
         IN (CASE c = "\n" -> <<"\\", "n">>
               [] c = "\\" -> <<"\\", "\\">>
               [] c = "\"" -> <<"\\", "\"">>
               [] OTHER -> <<c>>) \o Escape(Tail(s))

\* json.dumps(event): None is written null, a str between quotes
dumps(event) ==
    <<"{", IF event.json = "None" THEN "null" ELSE event.json, ",", "\"">>
        \o Escape(event.raw) \o <<"\"", "}">>

Undecodable == [ok |-> FALSE, value |-> <<>>]

\* json.loads of the inside of a str: an escape is decoded, a bare quote or
\* line feed and an unknown or unfinished escape raise JSONDecodeError
RECURSIVE Unescape(_)
Unescape(s) ==
    IF s = <<>> THEN [ok |-> TRUE, value |-> <<>>]
    ELSE IF Head(s) \in {"\n", "\""} THEN Undecodable
    ELSE IF Head(s) = "\\"
    THEN IF Len(s) < 2 \/ s[2] \notin {"n", "\\", "\""} THEN Undecodable
         ELSE LET rest == Unescape(SubSeq(s, 3, Len(s)))
                  c == IF s[2] = "n" THEN "\n" ELSE s[2]
              IN IF rest.ok THEN [ok |-> TRUE, value |-> <<c>> \o rest.value]
                 ELSE Undecodable
    ELSE LET rest == Unescape(Tail(s))
         IN IF rest.ok THEN [ok |-> TRUE, value |-> <<Head(s)>> \o rest.value]
            ELSE Undecodable

\* json.loads(line)
loads(line) ==
    LET n == Len(line)
    IN IF \/ n < 6
          \/ line[1] # "{" \/ line[3] # "," \/ line[4] # "\""
          \/ line[n - 1] # "\"" \/ line[n] # "}"
          \/ line[2] \notin {"null"} \cup (JsonFields \ {"None"})
       THEN Undecodable
       ELSE LET raw == Unescape(SubSeq(line, 5, n - 2))
            IN IF raw.ok
               THEN [ok |-> TRUE,
                     value |-> [json |-> IF line[2] = "null" THEN "None" ELSE line[2],
                                raw |-> raw.value]]
               ELSE Undecodable

\* for line in f: the file's lines, each ending at its line feed
RECURSIVE FileLines(_)
FileLines(f) ==
    IF f = <<>> THEN <<>>
    ELSE LET end == IF \E i \in 1..Len(f) : f[i] = "\n"
                    THEN CHOOSE i \in 1..Len(f) :
                             f[i] = "\n" /\ \A j \in 1..(i - 1) : f[j] # "\n"
                    ELSE Len(f)
         IN <<SubSeq(f, 1, end)>> \o FileLines(SubSeq(f, end + 1, Len(f)))

\* line.strip()
RECURSIVE StripLine(_)
StripLine(line) ==
    IF line = <<>> THEN <<>>
    ELSE IF Head(line) \in {"\n", " "} THEN StripLine(Tail(line))
    ELSE IF line[Len(line)] \in {"\n", " "} THEN StripLine(SubSeq(line, 1, Len(line) - 1))
    ELSE line

\* _load_events: the loop over the lines
RECURSIVE LoadedFrom(_)
LoadedFrom(lines) ==
    IF lines = <<>> THEN <<>>
    ELSE LET line == StripLine(Head(lines))
             rest == LoadedFrom(Tail(lines))
         IN IF line = <<>> THEN rest
            ELSE IF loads(line).ok THEN <<loads(line).value>> \o rest
            ELSE rest

\* Logger._save_event with a Path: under _file_lock, json.dumps(event) and a
\* line feed are appended to the file
SaveEvent ==
    /\ program = "save"
    /\ \E event \in Records :
            /\ events_file.pc = "saving"
            /\ Len(events_file.saved) < MaxSaved
            /\ events_file' = [events_file EXCEPT !.file = @ \o dumps(event) \o <<"\n">>,
                                                  !.saved = Append(@, event)]
            /\ UNCHANGED <<program, fvars, rvars, hvars, app_state, mock>>

\* EventReplayer._load_events reads the file
LoadEvents ==
    /\ program = "save"
    /\ events_file.pc = "saving"
    /\ events_file' = [events_file EXCEPT !.loaded = LoadedFrom(FileLines(events_file.file)),
                                          !.pc = "loaded"]
    /\ UNCHANGED <<program, fvars, rvars, hvars, app_state, mock>>

\* A new file
InitSave ==
    events_file = [file |-> <<>>, saved |-> <<>>, loaded |-> <<>>, pc |-> "saving"]

\* No events file is written
NoSave == events_file = Unused

NextSave == SaveEvent \/ LoadEvents

\* ------------------------------------------------------ exit_after

\* Requests the listener receives, and the largest exit_after
MaxRequests == 3
MaxExitAfter == 2

Requests == 1..MaxRequests

\* app.state.event_counter >= app.state.exit_after
Reached(counter, n) == counter >= n

\* Faulty variant: shutdown_requested is not looked at
NotRequested_Always(flag) == TRUE

\* not app.state.shutdown_requested
NotRequested(flag) == ~flag

\* A request arrives: catch_all awaits request.body()
Arrive ==
    /\ program = "listen"
    /\ \E r \in Requests :
            /\ app_state.pc[r] = "idle"
            /\ app_state.shutdownPc # "killed"
            /\ app_state' = [app_state EXCEPT !.pc[r] = "body"]
            /\ UNCHANGED <<program, fvars, rvars, hvars, events_file, mock>>

\* The body is read: catch_all builds the event and awaits logger.log(event)
ReadBody ==
    /\ program = "listen"
    /\ \E r \in Requests :
            /\ app_state.pc[r] = "body"
            /\ app_state' = [app_state EXCEPT !.pc[r] = "log"]
            /\ UNCHANGED <<program, fvars, rvars, hvars, events_file, mock>>

\* logger.log returned: the rest of catch_all runs without an await: count
\* the event, request the shutdown once, answer 200
Handled ==
    /\ program = "listen"
    /\ \E r \in Requests :
            LET answered == [app_state EXCEPT !.pc[r] = "done"]
                counted == [answered EXCEPT !.event_counter = @ + 1]
            IN
            /\ app_state.pc[r] = "log"
            /\ app_state' =
                  IF app_state.exit_after # {}
                  THEN IF (\E n \in app_state.exit_after : Reached(counted.event_counter, n))
                          /\ NotRequested(app_state.shutdown_requested)
                       THEN [counted EXCEPT !.shutdown_requested = TRUE,
                                            !.shutdowns = @ + 1,
                                            !.shutdownPc = "sleep"]
                       ELSE counted
                  ELSE answered
            /\ UNCHANGED <<program, fvars, rvars, hvars, events_file, mock>>

\* graceful_shutdown: after 0.5 s the coordinator is stopped, after 0.2 s
\* more the process sends itself SIGTERM
GracefulShutdown ==
    /\ program = "listen"
    /\ app_state.shutdownPc \in {"sleep", "stopped"}
    /\ app_state' = [app_state EXCEPT
                        !.shutdownPc = IF @ = "sleep" THEN "stopped" ELSE "killed"]
    /\ UNCHANGED <<program, fvars, rvars, hvars, events_file, mock>>

\* create_app(logger, exit_after): None, or the number given
InitListen ==
    \E exit_after \in {{}} \cup {{n} : n \in 0..MaxExitAfter} :
        app_state = [exit_after |-> exit_after,
                     event_counter |-> 0,
                     shutdown_requested |-> FALSE,
                     shutdowns |-> 0,
                     pc |-> [r \in Requests |-> "idle"],
                     shutdownPc |-> "none"]

\* No listener is created
NoListen == app_state = Unused

NextListen ==
    \/ Arrive
    \/ ReadBody
    \/ Handled
    \/ GracefulShutdown

\* ------------------------------------------------------ MockServer

\* Concurrent requests to one method and path, and the longest sequence
MaxCalls == 3
MaxSeq == 2

MockCalls == 1..MaxCalls

\* Paths requested ("/a", "/ab") and keys of spec['routes'] ("/a", "/*",
\* "/a*", "/b*"), as characters
RequestPaths == {<<"/", "a">>, <<"/", "a", "b">>}
RouteKeys == {<<"/", "a">>, <<"/", "*">>, <<"/", "a", "*">>, <<"/", "b", "*">>}

\* The method keys a route's dict may have (none: the key is absent or its
\* dict has no method)
MethodSets == {{}, {"GET"}, {"ANY"}, {"GET", "ANY"}}

\* The empty config {}; any other config is named by its route key and
\* method key
EmptyConfig == <<>>

\* if method in route_config: ... if 'ANY' in route_config: ...
ConfigFor(routes, key, method) ==
    IF method \in routes[key] THEN <<key, method>>
    ELSE IF "ANY" \in routes[key] THEN <<key, "ANY">>
    ELSE EmptyConfig

\* path.startswith(prefix)
StartsWith(path, prefix) ==
    Len(prefix) <= Len(path) /\ SubSeq(path, 1, Len(prefix)) = prefix

\* Faulty variant: sorted without reverse=True, the shortest key first
FirstOf_Shortest(keys) == CHOOSE k \in keys : \A j \in keys : Len(k) <= Len(j)

\* The head of sorted(..., key=len, reverse=True): a longest key
FirstOf(keys) == CHOOSE k \in keys : \A j \in keys : Len(j) <= Len(k)

\* for route_pattern, route_config in sorted_routes: the first pattern
\* whose prefix the path starts with and that has the method or ANY
RECURSIVE FirstMatch(_, _, _, _)
FirstMatch(routes, keys, path, method) ==
    IF keys = {} THEN EmptyConfig
    ELSE LET route_pattern == FirstOf(keys)
             prefix == SubSeq(route_pattern, 1, Len(route_pattern) - 1)
         IN IF /\ StartsWith(path, prefix)
               /\ ConfigFor(routes, route_pattern, method) # EmptyConfig
            THEN ConfigFor(routes, route_pattern, method)
            ELSE FirstMatch(routes, keys \ {route_pattern}, path, method)

\* MockServer._get_response_config
GetResponseConfig(routes, path, method) ==
    IF path \in DOMAIN routes /\ ConfigFor(routes, path, method) # EmptyConfig
    THEN ConfigFor(routes, path, method)
    ELSE FirstMatch(routes, {k \in DOMAIN routes : k[Len(k)] = "*"}, path, method)

\* Faulty variant: the index is taken from the call number itself
SeqIndex_OffByOne(num, len) == IF num < len - 1 THEN num ELSE len - 1

\* index = min(call_num - 1, len(sequence) - 1)
SeqIndex(num, len) == IF num - 1 < len - 1 THEN num - 1 ELSE len - 1

\* Faulty variant: the handler reads the stored count when it answers
CallNumber_Stored(m, h) == m.call_counts

\* call_num, the handler's local copy taken under the lock
CallNumber(m, h) == m.call_num[h]

\* The element of the sequence served (0: the config has no sequence)
Element(config, num) ==
    IF config = EmptyConfig \/ mock.seqLen = 0 THEN 0
    ELSE SeqIndex(num, mock.seqLen) + 1

\* mock_handler up to its first await: under the lock the count of the route
\* is incremented and copied, the config is resolved; with a delay the
\* handler sleeps, without one it answers at once
MockHandler ==
    /\ program = "mock"
    /\ \E h \in MockCalls :
            LET counted == [mock EXCEPT
                              !.call_counts = @ + 1,
                              !.call_num[h] = mock.call_counts + 1,
                              !.order = Append(@, h),
                              !.config[h] = GetResponseConfig(mock.routes, mock.path, mock.method)]
            IN
            /\ h <= mock.n
            /\ mock.pc[h] = "idle"
            /\ mock' = IF mock.sleeps
                       THEN [counted EXCEPT !.pc[h] = "sleep"]
                       ELSE [counted EXCEPT
                               !.pc[h] = "done",
                               !.element[h] = Element(counted.config[h], CallNumber(counted, h))]
            /\ UNCHANGED <<program, fvars, rvars, hvars, events_file, app_state>>

\* asyncio.sleep(delay) is over: the handler picks the sequence element and
\* answers
MockSleepEnds ==
    /\ program = "mock"
    /\ \E h \in MockCalls :
            /\ mock.pc[h] = "sleep"
            /\ mock' = [mock EXCEPT
                          !.pc[h] = "done",
                          !.element[h] = Element(mock.config[h], CallNumber(mock, h))]
            /\ UNCHANGED <<program, fvars, rvars, hvars, events_file, app_state>>

\* The table with one wildcard route for any method
OneRoute == [k \in RouteKeys |-> IF k = <<"/", "a", "*">> THEN {"ANY"} ELSE {}]

\* MockServer(spec): every route table with one request, or one route with
\* up to MaxCalls requests, a delay or none, a sequence or none
InitMock ==
    \E path \in RequestPaths, method \in {"GET", "POST"},
       routes \in [RouteKeys -> MethodSets], n \in 1..MaxCalls,
       sleeps \in BOOLEAN, seqLen \in 0..MaxSeq :
        /\ \/ n = 1 /\ ~sleeps /\ seqLen = 0
           \/ routes = OneRoute
        /\ mock = [routes |-> routes, path |-> path, method |-> method, n |-> n,
                   sleeps |-> sleeps, seqLen |-> seqLen,
                   call_counts |-> 0,
                   call_num |-> [h \in MockCalls |-> 0],
                   order |-> <<>>,
                   config |-> [h \in MockCalls |-> EmptyConfig],
                   element |-> [h \in MockCalls |-> 0],
                   pc |-> [h \in MockCalls |-> "idle"]]

\* No MockServer is created
NoMock == mock = Unused

NextMock ==
    \/ MockHandler
    \/ MockSleepEnds

\* The server (fasthook listen --forward) runs a Forwarder; the replay command
\* runs an EventReplayer; the mock command runs a MockServer. One process
\* runs one of them.
Init ==
    \/ program = "forward" /\ InitForwarder /\ NoReplay /\ NoRequestBuilt /\ NoSave /\ NoListen /\ NoMock
    \/ program = "server" /\ InitForwarder /\ NoReplay /\ NoRequestBuilt /\ NoSave /\ NoListen /\ NoMock
    \/ program = "replay" /\ InitReplay /\ NoForwarder /\ NoRequestBuilt /\ NoSave /\ NoListen /\ NoMock
    \/ program = "request" /\ InitRequest /\ NoForwarder /\ NoReplay /\ NoSave /\ NoListen /\ NoMock
    \/ program = "save" /\ InitSave /\ NoForwarder /\ NoReplay /\ NoRequestBuilt /\ NoListen /\ NoMock
    \/ program = "listen" /\ InitListen /\ NoForwarder /\ NoReplay /\ NoRequestBuilt /\ NoSave /\ NoMock
    \/ program = "mock" /\ InitMock /\ NoForwarder /\ NoReplay /\ NoRequestBuilt /\ NoSave /\ NoListen

Next == NextForwarder \/ NextReplay \/ NextRequest \/ NextSave \/ NextListen \/ NextMock

Spec == Init /\ [][Next]_vars

\* The event loop runs every ready coroutine, timers fire, and every
\* client.request call returns or raises in the end.
Fairness ==
    /\ WF_vars(WorkerGet)
    /\ \A c \in Callers : WF_vars(Acquire(c))
    /\ \A c \in Callers : WF_vars(\E o \in Outcomes : RequestReturns(c, o))
    /\ \A c \in Callers : WF_vars(SleepEnds(c))
    /\ WF_vars(WorkerCancelled)
    /\ WF_vars(StopReturn)

SpecLive == Init /\ [][Next]_vars /\ Fairness

\* Only the event loop's own steps are fair: the cancellation is delivered to
\* the drain loop and the awaiting stop() is resumed; client.request may
\* never return and timers may never fire.
StopFairness ==
    /\ WF_vars(WorkerCancelled)
    /\ WF_vars(StopReturn)

SpecStop == Init /\ [][Next]_vars /\ StopFairness

\* ------------------------------------------------------------- claims

Last(l) == l[Len(l)]
Is5xx(o) == o.kind = "response" /\ o.status >= 500
IsBelow500(o) == o.kind = "response" /\ o.status < 500
AllRaised(l) == l # <<>> /\ \A k \in 1..Len(l) : l[k] = Exception
NoneReturned(l) == \A k \in 1..Len(l) : l[k] \in {Exception, Pending}

\* C1: when every delivery attempt for an event raises, the sender makes
\* exactly max-retries attempts (forward_retries in _process_forward, 3 in
\* _send_event) and never more; after the last one the terminal failure is
\* logged and the call has returned to its caller.
C1_RetryExhaustion ==
    /\ \A e \in Events :
         /\ NoneReturned(log[e]) => Len(log[e]) <= forward_retries
         /\ AllRaised(log[e]) =>
              IF Len(log[e]) = forward_retries
              THEN e \in failedLog /\ e \in returned
              ELSE e \notin failedLog /\ e \notin returned
    /\ \A i \in 1..MaxReplayEvents :
         /\ NoneReturned(rLog[i]) => Len(rLog[i]) <= max_retries
         /\ AllRaised(rLog[i]) =>
              IF Len(rLog[i]) = max_retries
              THEN i \in rFailed /\ i \in rReturned
              ELSE i \notin rFailed /\ i \notin rReturned

C1_Witness ==
    /\ forward_retries >= 2
    /\ \E e \in Events :
         /\ AllRaised(log[e])
         /\ Len(log[e]) = forward_retries
         /\ e \in failedLog
         /\ e \in returned

\* C2: the forward queue never holds more than MAX_QUEUE_SIZE events; a
\* forward_event call that times out returns with its event dropped: the
\* event is never in the queue and the queue holds what it held.
C2_QueueBound ==
    /\ [](Len(queue) <= MAX_QUEUE_SIZE)
    /\ [](\A e \in dropped : e \notin Range(accepted) /\ e \notin Range(putters)
                             /\ e \notin woken)
    /\ [][dropped' # dropped => queue' = queue /\ accepted' = accepted]_vars

C2_Witness ==
    /\ workerTask = "none"
    /\ Len(queue) = MAX_QUEUE_SIZE
    /\ dropped # {}

\* C3: the number of client.request calls in flight from one Forwarder is
\* at most forward_concurrency, whoever calls _process_forward.
C3_ConcurrencyBound == Cardinality(InFlight) <= forward_concurrency

C3_Witness ==
    /\ forward_concurrency >= 1
    /\ Cardinality(InFlight) = forward_concurrency
    /\ \E c \in Callers : proc[c].pc = "acquire"

\* C4: with forward_concurrency > 1, while the delivery of one dequeued event
\* is in flight and another event is queued, the drain loop can dequeue that
\* event without waiting for the delivery to finish.
C4_DequeueWhileInFlight ==
    ( /\ forward_concurrency > 1
      /\ workerTask = "running"
      /\ proc[W].pc = "request"
      /\ queue # <<>> )
    => ENABLED WorkerGet

\* C5: the drain loop dequeues events, and starts their first delivery
\* attempts, in the order in which the queue accepted them.
C5_Fifo ==
    /\ Len(dequeued) <= Len(accepted)
    /\ dequeued = SubSeq(accepted, 1, Len(dequeued))
    /\ queue = SubSeq(accepted, Len(dequeued) + 1, Len(accepted))
    /\ Len(firstStart) <= Len(dequeued)
    /\ firstStart = SubSeq(dequeued, 1, Len(firstStart))

C5_Witness ==
    /\ Len(accepted) >= 3
    /\ Len(dequeued) >= 3
    /\ firstStart = accepted

\* C6: after an event has failed on every attempt the drain loop is back at
\* queue.get() and still running, so that the next queued event can be
\* dequeued; the loop ends only when stop() has cancelled it.
C6_LoopSurvivesFailure ==
    /\ [](workerTask = "ended" => stopPc # "idle")
    /\ [](proc[W].pc \in {"done", "cancelled"} => workerTask = "ended")
    /\ [][ (proc[W].pc = "request" /\ proc[W].event \in failedLog' \ failedLog)
           => (workerTask' = "running" /\ proc'[W].pc = "get") ]_vars
    /\ []((workerTask = "running" /\ proc[W].pc = "get" /\ queue # <<>>)
           => ENABLED WorkerGet)

C6_Witness ==
    /\ workerTask = "running"
    /\ Len(dequeued) >= 2
    /\ dequeued[1] \in failedLog
    /\ AllRaised(log[dequeued[1]])
    /\ Len(log[dequeued[2]]) >= 1

\* C7: with the drain loop running, forward_concurrency >= 1 and
\* forward_retries >= 1, every event in the forward queue gets a delivery
\* attempt unless the loop is stopped; an event whose first attempt
\* succeeds has exactly one request made for it.
C7_EventuallyAttempted ==
    /\ \A e \in Events :
         ( /\ e \in Range(queue)
           /\ workerTask = "running"
           /\ forward_concurrency >= 1
           /\ forward_retries >= 1 )
         ~> (log[e] # <<>> \/ workerTask # "running")
    /\ [](\A e \in Events :
            (log[e] # <<>> /\ IsBelow500(log[e][1])) => Len(log[e]) = 1)

C7_Witness ==
    /\ workerTask = "running"
    /\ \E e \in Range(dequeued) :
         /\ e \in returned
         /\ Len(log[e]) = 1
         /\ IsBelow500(log[e][1])
    /\ \E e \in Range(dequeued) : Len(log[e]) >= 2

\* C8: in the forwarding path a response with status >= 500 is a transient
\* failure: _process_forward does not return after it while attempts remain.
C8_Forward5xxRetried ==
    \A e \in Events :
        (e \in returned /\ log[e] # <<>> /\ Is5xx(Last(log[e])))
        => Len(log[e]) = forward_retries

\* C9: in replay a response below 500 ends the delivery of the event with
\* that attempt; a response of 500 or above is followed by a backoff and
\* another attempt as long as attempts remain.
C9_ReplayStatusBoundary ==
    \A i \in 1..MaxReplayEvents :
        \A k \in 1..Len(rLog[i]) :
            /\ IsBelow500(rLog[i][k]) => (Len(rLog[i]) = k /\ i \in rReturned)
            /\ (Is5xx(rLog[i][k]) /\ k < max_retries) =>
                  \/ Len(rLog[i]) > k
                  \/ (rPc = "sleep" /\ rIdx = i /\ rAttempt = k - 1 /\ i \notin rReturned)
            /\ (Is5xx(rLog[i][k]) /\ k = max_retries) => i \in rReturned

C9_Witness ==
    \E i \in 1..MaxReplayEvents :
        /\ rLog[i] = <<Response(500), Response(499)>>
        /\ i \in rReturned
        /\ rIdx = i

\* C10: when every attempt for a replayed event gets a status >= 500, the
\* replay sender makes exactly 3 attempts, then logs a terminal failure for
\* the event and returns.
C10_Replay5xxExhaustion ==
    \A i \in 1..MaxReplayEvents :
        (rLog[i] # <<>> /\ \A k \in 1..Len(rLog[i]) : Is5xx(rLog[i][k])) =>
            /\ Len(rLog[i]) <= max_retries
            /\ Len(rLog[i]) = max_retries => (i \in rReturned /\ i \in rFailed)

\* C11: when the first k attempts for a forwarded event raise and attempt
\* k+1 is answered below 500 (k < forward_retries), exactly k+1 attempts are
\* made for the event: the answered attempt is the last one and
\* _process_forward has returned.
C11_StopsAtFirstSuccess ==
    \A e \in Events :
        \A n \in 1..Len(log[e]) :
            ( /\ \A j \in 1..(n - 1) : log[e][j] = Exception
              /\ IsBelow500(log[e][n]) )
            => (Len(log[e]) = n /\ n <= forward_retries /\ e \in returned)

C11_Witness ==
    \E e \in Events :
        /\ log[e] = <<Exception, Response(499)>>
        /\ e \in returned

\* The waits w follow the attempts l of one event, of which at most max are made.
BackoffSchedule(l, w, max, failed(_)) ==
    /\ \A k \in 1..Len(w) : k <= Len(l) /\ failed(l[k]) /\ w[k] = 2 ^ (k - 1)
    /\ Len(l) >= 2 => Len(w) >= Len(l) - 1
    /\ Len(w) = 0 \/ Len(w) < max

Raised(o) == o = Exception
RaisedOr5xx(o) == o = Exception \/ Is5xx(o)

\* C12: between failed attempt k and attempt k+1 of one event the sender
\* waits 2^(k-1) seconds (1, 2, 4, ...): every attempt after the first is
\* preceded by that wait, a wait only follows a failed attempt, and no wait
\* follows the final attempt.  In _process_forward a failure is a raised
\* exception, in _send_event a raised exception or a status >= 500.
C12_Backoff ==
    /\ \A e \in Events : BackoffSchedule(log[e], slept[e], forward_retries, Raised)
    /\ \A i \in 1..MaxReplayEvents :
           BackoffSchedule(rLog[i], rSlept[i], max_retries, RaisedOr5xx)

C12_Witness ==
    \E i \in 1..MaxReplayEvents :
        /\ Len(rLog[i]) = 3
        /\ rLog[i][1] = Response(500)
        /\ rLog[i][2] = Exception
        /\ RaisedOr5xx(rLog[i][3])
        /\ rSlept[i] = <<1, 2>>
        /\ i \in rReturned

\* C13: stop() on a started Forwarder terminates whatever the drain loop is
\* doing (awaiting client.request for ever, in a backoff sleep); a stop()
\* call that found a drain-loop task returns only when the loop has ended,
\* and an ended loop dequeues nothing and makes no further attempt.
C13_StopTerminates ==
    /\ (stopPc = "awaiting") ~> (stopPc = "done")
    /\ [][ ( /\ stopPc' = "done"
             /\ (stopPc = "awaiting" \/ stopCalls' # stopCalls)
             /\ workerTask # "none" )
           => workerTask' = "ended" ]_vars
    /\ [][ workerTask = "ended" =>
             /\ workerTask' = "ended"
             /\ dequeued' = dequeued
             /\ firstStart' = firstStart
             /\ \A e \in Range(dequeued) : log'[e] = log[e] ]_vars

C13_Witness ==
    /\ stopPc = "done"
    /\ workerTask = "ended"
    /\ queue # <<>>
    /\ \E e \in Range(dequeued) : log[e] # <<>> /\ Last(log[e]) = Abandoned

\* C14: however many start() calls a Forwarder gets (direct ones, the
\* server's startup hook, the lazy start of EventLogger.log), at most one
\* drain-loop task is ever created: once started there is exactly one, and
\* a start() on a Forwarder that has a task creates no second one.
C14_StartIdempotent ==
    /\ loops <= 1
    /\ startCalls >= 1 => loops = 1
    /\ workerTask = "running" => loops = 1

C14_Witness ==
    /\ started
    /\ startCalls >= 2
    /\ workerTask = "running"
    /\ loops = 1
    /\ proc[W].pc = "request"

\* C15: a stop() call (Forwarder.stop, or EventLogger.close through the
\* coordinator) on a Forwarder that was never started and has no HTTP client
\* returns at once and changes nothing: no task is created or cancelled, no
\* client is created or closed, queue and permits are untouched.
C15_StopOnFresh ==
    [][ ( /\ stopCalls' = stopCalls + 1
          /\ workerTask = "none"
          /\ httpClient = "none" )
        => /\ stopPc' = "done"
           /\ UNCHANGED <<workerTask, httpClient, loops, closes, proc, queue, putters,
                          woken, semValue, started, startCalls, log, accepted,
                          dequeued, dropped>> ]_vars

C15_Witness ==
    /\ stopCalls >= 1
    /\ stopPc = "done"
    /\ workerTask = "none"
    /\ httpClient = "none"
    /\ loops = 0
    /\ closes = 0
    /\ queue # <<>>

\* C16: over any sequence of start(), forward_event() and stop() calls on one
\* Forwarder, aclose() is called at most once on its HTTP client.
C16_ClosedOnce == closes <= 1

\* C17: when replay() has exited - after the last event, after finding no
\* events, or by re-raising an exception that left _replay_events - the HTTP
\* client, if the replayer holds one, has been closed exactly once; no client
\* is closed while the run is under way.
C17_ReplayClosesClient ==
    /\ rCloses <= 1
    /\ rPc \in {"done", "raised"} =>
          IF rClient = "none" THEN rCloses = 0
          ELSE rClient = "closed" /\ rCloses = 1
    /\ rPc \notin {"done", "raised"} => (rCloses = 0 /\ rClient # "closed")

C17_Witness ==
    /\ rPc = "raised"
    /\ rIdx = 2
    /\ rLog[1] # <<>>
    /\ rClient = "closed"
    /\ rCloses = 1

NoPending(l) == \A k \in 1..Len(l) : l[k] # Pending

\* C18: in every timing mode the events are handled in file order, each
\* once: the k-th _replay_event call is for event k, and a completed run has
\* made rN of them.  Single-flight: a request is only ever outstanding for
\* the current event, and whenever the loop is anywhere else (rate-limit
\* wait, sleep between events, next event) every event handled so far has
\* finished all its attempts.  An event whose first request is answered
\* below 500 gets exactly one request.
C18_ReplayInOrder ==
    /\ \A k \in 1..Len(rSends) : rSends[k].event = k
    /\ \A k \in 2..Len(rSends) : rSends[k - 1].at <= rSends[k].at
    /\ Len(rSends) \in {rIdx - 1, rIdx} \cap 0..rN
    /\ (program = "replay" /\ rPc = "done") => Len(rSends) = rN
    /\ \A i \in 1..MaxReplayEvents :
          /\ ~NoPending(rLog[i]) => (i = rIdx /\ rPc = "request")
          /\ rLog[i] # <<>> => (rTarget /\ i <= Len(rSends))
          /\ (rLog[i] # <<>> /\ IsBelow500(rLog[i][1])) => Len(rLog[i]) = 1
    /\ rPc \notin {"request", "sleep"} =>
          \A k \in 1..Len(rSends) : rTarget => (k \in rReturned /\ rLog[k] # <<>>)

C18_Witness ==
    /\ Mode = "once"
    /\ rTarget
    /\ rPc = "done"
    /\ rN >= 2
    /\ Len(rSends) = rN
    /\ rDelays # <<>>
    /\ \A i \in 1..rN : Len(rLog[i]) = 1

\* C19: as fast as possible with min_interval = 1 / max_rps: the first
\* admission is immediate (at the start of the run, no limiter sleep before
\* it), every later admission comes at least min_interval after the one
\* before, every send starts at its admission, and a completed run of rN
\* events has lasted at least (rN - 1) * min_interval.
C19_FastModeRate ==
    Mode = "fast" =>
        /\ rAdmits # <<>> => rAdmits[1] = 0
        /\ rPc = "limitSleep" => rAdmits # <<>>
        /\ \A k \in 2..Len(rAdmits) : rAdmits[k] - rAdmits[k - 1] >= rMinInterval
        /\ \A k \in 1..Len(rSends) : k <= Len(rAdmits) /\ rSends[k].at = rAdmits[k]
        /\ (program = "replay" /\ rPc = "done") => rNow >= (rN - 1) * rMinInterval

C19_Witness ==
    /\ Mode = "fast"
    /\ rPc = "done"
    /\ rN >= 2
    /\ rMinInterval = MaxInterval
    /\ rSlow
    /\ rAdmits[2] = rAdmits[1] + rMinInterval
    /\ rNow = (rN - 1) * rMinInterval

\* C20: in every timing mode the starts of two consecutive sends of one run
\* are at least min_interval = 1 / max_rps apart, the first and the second
\* included.
C20_AllModesRate ==
    \A k \in 2..Len(rSends) : rSends[k].at - rSends[k - 1].at >= rMinInterval

\* C21: in fixed-delay mode a sleep of fixed_delay follows each event but
\* the last: the k-th sleep comes between the k-th and the (k+1)-th send,
\* a completed run of rN events has slept rN - 1 times and lasted at least
\* (rN - 1) * fixed_delay, and the sends are in file order.
C21_FixedDelay ==
    Mode = "fixed" =>
        /\ \A k \in 1..Len(rDelays) :
              /\ rDelays[k].ticks = fixed_delay
              /\ rDelays[k].before = k + 1
              /\ k <= Len(rSends)
        /\ Len(rDelays) <= rN - 1 \/ rN = 0
        /\ Len(rDelays) \in {Len(rSends) - 1, Len(rSends)} \/ rSends = <<>>
        /\ \A k \in 2..Len(rSends) :
              /\ Len(rDelays) >= k - 1
              /\ rSends[k].at >= rSends[k - 1].at + fixed_delay
        /\ \A k \in 1..Len(rSends) : rSends[k].event = k
        /\ (program = "replay" /\ rPc = "done" /\ rN >= 1) =>
              /\ Len(rDelays) = rN - 1
              /\ Len(rSends) = rN
              /\ rNow >= (rN - 1) * fixed_delay

C21_Witness ==
    /\ Mode = "fixed"
    /\ rPc = "done"
    /\ rN >= 2
    /\ Len(rDelays) = rN - 1
    /\ Len(rSends) = rN
    /\ rNow = (rN - 1) * fixed_delay

RECURSIVE SumTicks(_)
SumTicks(ds) == IF ds = <<>> THEN 0 ELSE Head(ds).ticks + SumTicks(Tail(ds))

C23_OnePolicy ==
    LET policies == {rDelays[k].policy : k \in 1..Len(rDelays)} IN
    /\ rDelays # <<>> => Cardinality(policies) = 1
    /\ fixed_delay > 0 =>
          /\ policies \subseteq {"fixed"}
          /\ rStartTime = NoTime
          /\ Len(rSends) >= 2 => policies = {"fixed"}
    /\ (fixed_delay = 0 /\ replay_once) =>
          /\ policies \subseteq {"original"}
          /\ \A i \in 2..Len(rSends) :
                rTs[i] > rTs[i - 1] => policies = {"original"}
    /\ (fixed_delay = 0 /\ ~replay_once) =>
          /\ rDelays = <<>>
          /\ rStartTime = NoTime

C23_Witness ==
    /\ fixed_delay > 0
    /\ replay_once
    /\ rPc = "done"
    /\ rN >= 2
    /\ rTs[2] > rTs[1]
    /\ Len(rSends) = rN
    /\ Len(rDelays) = rN - 1
    /\ \A k \in 1..Len(rDelays) : rDelays[k].policy = "fixed"

RECURSIVE RecordsUpTo(_, _)
RecordsUpTo(f, k) ==
    IF k = 0 THEN <<>>
    ELSE IF f[k] = "json" THEN Append(RecordsUpTo(f, k - 1), k)
    ELSE RecordsUpTo(f, k - 1)

\* C24: for a file of valid JSON lines, invalid lines and blank lines in
\* any order, _load_events returns exactly the valid lines in file order, as
\* many as the file has; an invalid line is logged and skipped and neither
\* raises nor ends the load.
C24_LoadEvents ==
    (program = "replay" /\ rSource = "ok") =>
        /\ rEvents = RecordsUpTo(rFile, rLine)
        /\ rSkipped = {i \in 1..rLine : rFile[i] = "not json"}
        /\ rPc \in {"cli", "rejected", "init"} => rLine = 0
        /\ rPc \notin {"cli", "rejected", "init", "load"} =>
              /\ rLine = Len(rFile)
              /\ rEvents = RecordsUpTo(rFile, Len(rFile))
              /\ Len(rEvents) = Cardinality({i \in DOMAIN rFile : rFile[i] = "json"})
              /\ Len(rEvents) = rN

C24_Witness ==
    /\ program = "replay"
    /\ rPc = "done"
    /\ rEvents # <<>>
    /\ Len(rSends) = Len(rEvents)
    /\ \E i, j, k \in DOMAIN rFile :
          /\ i < j
          /\ rFile[i] = "not json"
          /\ rFile[j] = "json"
          /\ rFile[k] = " "
          /\ rEvents = <<j>>

\* C25: replay() on a source without any record, empty or made of invalid
\* and blank lines only, returns without raising: the delivery loop is not
\* entered, nothing is sent or waited for, and no HTTP client is created.
C25_EmptySource ==
    (program = "replay" /\ rSource = "ok" /\ \A i \in DOMAIN rFile : rFile[i] # "json") =>
        /\ rPc \in {"cli", "rejected", "init", "load", "done"}
        /\ rClient = "none"
        /\ rCloses = 0
        /\ rIdx = 0
        /\ rNow = 0
        /\ rSends = <<>>
        /\ rAdmits = <<>>
        /\ rDelays = <<>>
        /\ \A i \in 1..MaxReplayEvents : rLog[i] = <<>>

C25_Witness ==
    /\ program = "replay"
    /\ rSource = "ok"
    /\ rTarget
    /\ rPc = "done"
    /\ rFile # <<>>
    /\ rLine = Len(rFile)
    /\ rEvents = <<>>
    /\ rSkipped # {}
    /\ rClient = "none"

\* C26: when the events file does not exist or cannot be opened, replay()
\* raises to its caller (once called it never returns normally), and before it does no
\* event is loaded, sent or reported, no wait is made and no HTTP client
\* is created.
C26_UnreadableSource ==
    (program = "replay" /\ rSource # "ok") =>
        /\ rPc \in {"cli", "rejected", "init", "raised"}
        /\ ENABLED ReplayOpen => rPc = "init"
        /\ rLine = 0
        /\ rEvents = <<>>
        /\ rSkipped = {}
        /\ rIdx = 0
        /\ rNow = 0
        /\ rSends = <<>>
        /\ rAdmits = <<>>
        /\ rDelays = <<>>
        /\ rClient = "none"
        /\ \A i \in 1..MaxReplayEvents : rLog[i] = <<>>

C26_Witness ==
    /\ program = "replay"
    /\ rSource = "missing"
    /\ rTarget
    /\ rPc = "raised"
    /\ rSends = <<>>

C28_FailureContained ==
    (program = "replay" /\ rSource = "ok") =>
        /\ rPc # "raised"
        /\ rPc = "done" => Len(rSends) = rN

\* C29: from either entry point, the replay command or an EventReplayer built
\* directly, the loop of _replay_events never takes an event while the rate
\* is zero or negative, max_rps is zero or negative, or the fixed delay is
\* negative.
C29_InvalidRejected ==
    (program = "replay" /\ rIdx >= 1) =>
        /\ rate > 0
        /\ max_rps > 0
        /\ fixed_delay >= 0

Lower(n) == IF n = "Host" THEN "host" ELSE n

\* C30: a request built by the forwarder or by the replay sender carries no
\* host header, whatever headers the event has, and every other header of
\* the event is passed on with its value.
C30_NoHostHeader ==
    (program = "request" /\ hRequest # NoRequest) =>
        /\ \A n \in DOMAIN hRequest.headers : Lower(n) # "host"
        /\ \A n \in DOMAIN hEvent.headers :
              Lower(n) # "host" =>
                  /\ n \in DOMAIN hRequest.headers
                  /\ hRequest.headers[n] = hEvent.headers[n]

\* C31: for every event, the outbound body is the JSON serialization of the
\* json field, with content-type application/json, whenever json is not None
\* (an empty object, an empty array, 0 and false included); otherwise it is
\* the raw string when raw is non-empty; otherwise the body is None.
C31_OutboundBody ==
    (program = "request" /\ hRequest # NoRequest) =>
        IF hEvent.json # "None"
        THEN /\ hRequest.content = hEvent.json
             /\ "content-type" \in DOMAIN hRequest.headers
             /\ hRequest.headers["content-type"] = "application/json"
        ELSE IF hEvent.raw # ""
        THEN hRequest.content = hEvent.raw
        ELSE hRequest.content = "None"

\* C32: every event record the listener creates satisfies: when the request
\* body is empty both json and raw are empty; otherwise exactly one of json
\* and raw is populated, raw being filled only when json is None.
C32_OneOfJsonRaw ==
    (program = "request" /\ hIncoming # NoIncoming /\ hEvent # NotCreated) =>
        IF hIncoming.body = ""
        THEN hEvent.json = "None" /\ hEvent.raw = ""
        ELSE /\ (hEvent.json # "None") # (hEvent.raw # "")
             /\ hEvent.raw # "" => hEvent.json = "None"

\* C33: for any sequence of event records saved by Logger._save_event to one
\* file, loading that file with EventReplayer._load_events returns the same
\* sequence: same length, same order, every record field for field equal to
\* the one saved.
C33_RoundTrip ==
    (program = "save" /\ events_file.pc = "loaded") =>
        /\ Len(events_file.loaded) = Len(events_file.saved)
        /\ \A i \in 1..Len(events_file.saved) :
              events_file.loaded[i].json = events_file.saved[i].json /\ events_file.loaded[i].raw = events_file.saved[i].raw

C33_Witness ==
    /\ program = "save"
    /\ events_file.pc = "loaded"
    /\ Len(events_file.saved) = MaxSaved
    /\ events_file.saved[1] # events_file.saved[2]
    /\ \E i \in 1..Len(events_file.saved[1].raw) : events_file.saved[1].raw[i] = "\n"
    /\ events_file.saved[2].raw = <<"\\", "n">>
    /\ events_file.loaded = events_file.saved

\* C34: when graceful shutdown stops the coordinator, the forwarder flushes
\* its queue: every event accepted into the forward queue has received a
\* delivery attempt when the drain loop ends.
C34_FlushOnStop ==
    [][ (workerTask # "ended" /\ workerTask' = "ended") =>
           \A e \in Range(accepted) : log'[e] # <<>> ]_vars

\* C38: across any sequence of start() and stop() calls a Forwarder creates
\* at most one drain-loop task in its lifetime: a start() after the loop was
\* stopped launches no new loop, so the events forward_event accepts after
\* stop() stay in the queue and get no delivery attempt.
C38_OneLoopForLife ==
    [][ /\ loops' <= 1
        /\ (startCalls' # startCalls /\ workerTask \in {"cancelling", "ended"}) =>
              /\ loops' = loops
              /\ workerTask' = workerTask
              /\ proc'[W] = proc[W]
        /\ workerTask = "ended" =>
              /\ Len(queue') >= Len(queue)
              /\ SubSeq(queue', 1, Len(queue)) = queue
              /\ \A e \in Range(queue') : log'[e] = <<>> ]_vars

C38_Witness ==
    /\ program = "server"
    /\ workerTask = "ended"
    /\ stopPc = "done"
    /\ stopCalls = MaxStops
    /\ startCalls = MaxStarts
    /\ started
    /\ loops = 1
    /\ dequeued = <<>>
    /\ Len(queue) = MAX_QUEUE_SIZE
    /\ \A e \in Range(queue) : log[e] = <<>>

\* The _process_forward calls inside the with-block
Holding == {c \in Callers : proc[c].pc \in {"request", "sleep"}}

\* C39: semaphore permits are conserved: in every reachable state the free
\* permits plus the number of _process_forward calls holding one equal
\* forward_concurrency; a permit is held for the whole retry sequence of an
\* event, backoff sleeps included, and is released on success, on retry
\* exhaustion and when the drain loop is cancelled mid-delivery.
C39_PermitsConserved ==
    /\ [](semValue + Cardinality(Holding) = forward_concurrency)
    /\ [][ \A c \in Callers :
             /\ (c \in Holding /\ proc'[c].event = proc[c].event) => c \in Holding'
             /\ (c \in Holding /\ c \notin Holding') =>
                   LET e == proc[c].event
                   IN /\ semValue' = semValue + 1
                      /\ \/ /\ e \in returned'
                            /\ \/ Last(log'[e]).kind = "response"
                               \/ Len(log'[e]) = forward_retries
                         \/ c = W /\ workerTask = "cancelling" /\ proc'[c].pc = "cancelled"
         ]_vars

C39_Witness ==
    /\ forward_concurrency = MaxConcurrency
    /\ semValue = forward_concurrency
    /\ workerTask = "ended"
    /\ \E e \in Range(dequeued) : Len(slept[e]) >= 1 /\ e \notin returned
    /\ \E e \in returned : Len(log[e]) = forward_retries /\ Last(log[e]).kind # "response"
    /\ \E e \in returned : Last(log[e]).kind = "response"

\* The requests catch_all has handled
HandledRequests == {r \in Requests : app_state.pc[r] = "done"}

\* C35: with exit_after = N (N >= 1) graceful shutdown is initiated when the
\* N-th webhook event has been handled and never before, and at most once
\* however many further events arrive or are handled concurrently; with
\* exit_after unset it is never initiated.
C35_ExitAfter ==
    program = "listen" =>
        /\ app_state.exit_after = {} => app_state.shutdowns = 0 /\ app_state.shutdownPc = "none"
        /\ \A n \in app_state.exit_after :
              n >= 1 => app_state.shutdowns = (IF Cardinality(HandledRequests) >= n THEN 1 ELSE 0)

C35_Witness ==
    /\ program = "listen"
    /\ app_state.exit_after = {MaxExitAfter}
    /\ Cardinality(HandledRequests) = MaxRequests
    /\ MaxRequests > MaxExitAfter
    /\ app_state.shutdowns = 1
    /\ app_state.shutdownPc = "killed"

\* The calls mock_handler has answered
Answered == {h \in MockCalls : mock.pc[h] = "done"}

UsableWildcards ==
    {k \in RouteKeys : /\ k[Len(k)] = "*"
                       /\ Len(k) - 1 <= Len(mock.path)
                       /\ \A i \in 1..(Len(k) - 1) : k[i] = mock.path[i]
                       /\ mock.routes[k] \cap {mock.method, "ANY"} # {}}

\* The config of a key for the method: the method's own, else ANY
MethodOrAny(k) == <<k, IF mock.method \in mock.routes[k] THEN mock.method ELSE "ANY">>

\* C37: mock route resolution for a path and method picks, in this order: the
\* exact-path entry (its method-specific config, else its ANY config); else
\* the matching wildcard entries from longest prefix to shortest, taking the
\* first that has the method or ANY; else the empty config that yields the
\* defaults. An exact match with a usable method always wins over any
\* wildcard.
C37_RouteResolution ==
    program = "mock" =>
        \A h \in Answered :
            IF mock.path \in RouteKeys /\ mock.routes[mock.path] \cap {mock.method, "ANY"} # {}
            THEN mock.config[h] = MethodOrAny(mock.path)
            ELSE IF UsableWildcards = {}
            THEN mock.config[h] = EmptyConfig
            ELSE \E k \in UsableWildcards :
                    /\ \A j \in UsableWildcards : Len(j) <= Len(k)
                    /\ mock.config[h] = MethodOrAny(k)

C37_Witness ==
    /\ program = "mock"
    /\ 1 \in Answered
    /\ mock.path = <<"/", "a">>
    /\ mock.method = "POST"
    /\ mock.routes[<<"/", "a">>] = {"GET"}
    /\ mock.routes[<<"/", "a", "*">>] = {"GET"}
    /\ mock.routes[<<"/", "*">>] = {"GET", "ANY"}
    /\ mock.config[1] = <<<<"/", "*">>, "ANY">>

\* C40: when n requests to the same mock method and path are handled
\* concurrently (interleaving at the lock and at the delay sleep), they are
\* assigned the distinct call numbers 1..n, the stored count for that route
\* ends at n, and each element of a configured sequence before the last is
\* served to exactly one of them.
C40_ConcurrentCalls ==
    program = "mock" =>
        /\ {mock.call_num[h] : h \in Range(mock.order)} = 1..Len(mock.order)
        /\ mock.call_counts = Len(mock.order)
        /\ Answered = 1..mock.n =>
              /\ mock.call_counts = mock.n
              /\ {mock.call_num[h] : h \in 1..mock.n} = 1..mock.n
              /\ (mock.seqLen >= 1 /\ \A h \in 1..mock.n : mock.config[h] # EmptyConfig) =>
                    \A i \in 1..(mock.seqLen - 1) :
                        Cardinality({h \in 1..mock.n : mock.element[h] = i})
                            = (IF i <= mock.n THEN 1 ELSE 0)

C40_Witness ==
    /\ program = "mock"
    /\ mock.n = MaxCalls
    /\ mock.sleeps
    /\ mock.seqLen = MaxSeq
    /\ Answered = MockCalls
    /\ mock.order[1] # 1
    /\ mock.call_counts = MaxCalls
====
